---------------------------- MODULE Spec2Model ----------------------------
(***************************************************************************)
(* Model of the retrieval service (ml-service/src): the BM25 lexical index  *)
(* (search/bm25.rs), the hybrid search coordinator (search/hybrid.rs), the *)
(* Search, IndexDocuments and HealthCheck handlers (grpc/service.rs), the *)
(* vector store client (search/qdrant.rs), the reranker                    *)
(* (reranker/model.rs), the skill extractor (ner/skills.rs) and the        *)
(* process-wide model runtimes (embedding/mod.rs, reranker/mod.rs).        *)
(*                                                                         *)
(* Texts are sequences of one-character strings.  Scores are f32 in the    *)
(* source; here a score is an integer in units of 1/Scale: the idf         *)
(* logarithm is evaluated by a fixed-point series and the tf factor is     *)
(* an exact fraction.  avg_doc_len is kept as a reduced fraction.          *)
(***************************************************************************)
EXTENDS Integers, Sequences, FiniteSets, TLC

(***************************************************************************)
(* Bounds of the model.                                                    *)
(***************************************************************************)
\* add_document is not taken once a term of the content has this doc_freq
MaxDf == 2
\* largest top_k passed to search
MaxTopK == 3
\* fixed-point unit of a score: 1/Scale
Scale == 10000
\* number of terms of the logarithm series
LnTerms == 8

\* BM25 parameters k1 = 1.5 and b = 0.75, as fractions
K1Num == 3
K1Den == 2
BNum == 3
BDen == 4

(***************************************************************************)
(* Inputs.                                                                 *)
(***************************************************************************)
\* document ids, listed in lexicographic (byte) order
IdOrder == <<"1", "10", "2">>
Ids == {IdOrder[i] : i \in 1..Len(IdOrder)}
IdRank(id) == CHOOSE i \in 1..Len(IdOrder) : IdOrder[i] = id

\* document contents
Contents ==
  { <<"A", "b", " ", "c", "d">>,
    <<"a", "b">>,
    <<"c", "d", ",", "c", "d", " ", "x">>,
    <<"x">> }

\* queries
Queries ==
  { <<"a", "b">>,
    <<"C", "d", " ", "a", "b">>,
    <<"x", "!">> }

(***************************************************************************)
(* Characters.                                                             *)
(***************************************************************************)
UpperChars ==
  <<"A", "B", "C", "D", "E", "F", "G", "H", "I", "J", "K", "L", "M",
    "N", "O", "P", "Q", "R", "S", "T", "U", "V", "W", "X", "Y", "Z">>
LowerChars ==
  <<"a", "b", "c", "d", "e", "f", "g", "h", "i", "j", "k", "l", "m",
    "n", "o", "p", "q", "r", "s", "t", "u", "v", "w", "x", "y", "z">>
\* alphanumeric characters that take two bytes in UTF-8
TwoByteChars == {"é"}

\* char::is_alphanumeric
IsAlphanumeric(c) ==
  \/ \E i \in 1..Len(UpperChars) : c = UpperChars[i]
  \/ \E i \in 1..Len(LowerChars) : c = LowerChars[i]
  \/ c \in TwoByteChars
  \/ c \in {"0", "1", "2", "3", "4", "5", "6", "7", "8", "9"}

\* the lowercase form of one character
LowerChar(c) ==
  IF \E i \in 1..Len(UpperChars) : c = UpperChars[i]
  THEN LowerChars[CHOOSE i \in 1..Len(UpperChars) : c = UpperChars[i]]
  ELSE c

\* str::to_lowercase
ToLowercase(text) == [i \in 1..Len(text) |-> LowerChar(text[i])]

\* number of bytes of one character in UTF-8
Utf8Len(c) == IF c \in TwoByteChars THEN 2 ELSE 1

RECURSIVE ByteLen(_)
\* str::len: the length in bytes
ByteLen(s) == IF s = <<>> THEN 0 ELSE Utf8Len(Head(s)) + ByteLen(Tail(s))

RECURSIVE ToStr(_)
\* the characters of a piece joined into one string
ToStr(s) == IF s = <<>> THEN "" ELSE Head(s) \o ToStr(Tail(s))

RECURSIVE SplitFrom(_, _, _, _)
\* str::split at every character that is not alphanumeric: the pieces, empty
\* ones included
SplitFrom(text, i, cur, acc) ==
  IF i > Len(text) THEN Append(acc, cur)
  ELSE IF IsAlphanumeric(text[i])
       THEN SplitFrom(text, i + 1, Append(cur, text[i]), acc)
       ELSE SplitFrom(text, i + 1, <<>>, Append(acc, cur))

\* the filter of tokenize: a piece is kept when it is not empty and is longer
\* than one byte
KeepPiece(s) == s # <<>> /\ ByteLen(s) > 1

\* BM25Index::tokenize
Tokenize(text) ==
  LET pieces == SplitFrom(ToLowercase(text), 1, <<>>, <<>>)
      kept == SelectSeq(pieces, KeepPiece)
  IN [i \in 1..Len(kept) |-> ToStr(kept[i])]

(***************************************************************************)
(* Arithmetic.                                                             *)
(***************************************************************************)
Min(a, b) == IF a < b THEN a ELSE b

RECURSIVE Gcd(_, _)
Gcd(a, b) == IF b = 0 THEN a ELSE Gcd(b, a % b)

\* the fraction n/d in lowest terms (d > 0)
Frac(n, d) == LET g == Gcd(n, d) IN [num |-> n \div g, den |-> d \div g]

\* 0.0
Zero == [num |-> 0, den |-> 1]

RECURSIVE SumSeq(_)
SumSeq(s) == IF s = <<>> THEN 0 ELSE Head(s) + SumSeq(Tail(s))

RECURSIVE AtanhSeries(_, _, _)
\* sum of z^(2j+1)/(2j+1) for j = k .. LnTerms-1, in units of 1/Scale, where
\* pow is z^(2k+1) and z the argument, both in units of 1/Scale
AtanhSeries(pow, z, k) ==
  IF k >= LnTerms \/ pow = 0 THEN 0
  ELSE (pow \div (2 * k + 1))
       + AtanhSeries((((pow * z) \div Scale) * z) \div Scale, z, k + 1)

\* ln(p/q) for p >= q > 0, in units of 1/Scale: 2 atanh((p-q)/(p+q))
LnGe(p, q) ==
  LET z == ((p - q) * Scale) \div (p + q) IN 2 * AtanhSeries(z, z, 0)

\* f32::ln of the fraction p/q (p, q > 0), in units of 1/Scale
Ln(p, q) == IF p >= q THEN LnGe(p, q) ELSE 0 - LnGe(q, p)

\* x * n / d rounded toward zero
MulDiv(x, n, d) == IF x >= 0 THEN (x * n) \div d ELSE 0 - (((0 - x) * n) \div d)

(***************************************************************************)
(* The index: documents, doc_freq, avg_doc_len.                            *)
(***************************************************************************)
EmptyMap == [x \in {} |-> 0]

\* HashMap::insert
MapPut(m, k, v) == [x \in DOMAIN m \cup {k} |-> IF x = k THEN v ELSE m[x]]

\* doc_freq.get(term).unwrap_or(&0)
DfGet(df, term) == IF term \in DOMAIN df THEN df[term] ELSE 0

\* the distinct terms of a token list
UniqueTerms(tokens) == {tokens[i] : i \in 1..Len(tokens)}

\* add_document, first block: one more document for every distinct term
BumpDocFreq(df, tokens) ==
  [t \in DOMAIN df \cup UniqueTerms(tokens) |->
     IF t \in UniqueTerms(tokens) THEN DfGet(df, t) + 1 ELSE df[t]]

\* add_document, second block: docs.insert(id, (content, tokens))
StoreDocument(docs, id, content, tokens) ==
  MapPut(docs, id, [content |-> content, tokens |-> tokens])

RECURSIVE TotalLen(_, _)
\* sum of tokens.len() over the documents with ids in S
TotalLen(docs, S) ==
  IF S = {} THEN 0
  ELSE LET id == CHOOSE x \in S : TRUE
       IN Len(docs[id].tokens) + TotalLen(docs, S \ {id})

\* a variant of AvgDocLen that divides the two usize values before the
\* conversion to f32
AvgDocLenIntegerDivision(docs) ==
  IF DOMAIN docs = {} THEN Zero
  ELSE Frac(TotalLen(docs, DOMAIN docs) \div Cardinality(DOMAIN docs), 1)

\* the value update_avg_doc_len writes
AvgDocLen(docs) ==
  IF DOMAIN docs = {} THEN Zero
  ELSE Frac(TotalLen(docs, DOMAIN docs), Cardinality(DOMAIN docs))

\* BM25Index::new
NewIndex == [documents |-> EmptyMap, doc_freq |-> EmptyMap, avg_doc_len |-> Zero]

\* BM25Index::add_document, run without interruption
AddDocumentOn(ix, id, content) ==
  LET tokens == Tokenize(content)
      docs == StoreDocument(ix.documents, id, content, tokens)
  IN [documents |-> docs,
      doc_freq |-> BumpDocFreq(ix.doc_freq, tokens),
      avg_doc_len |-> AvgDocLen(docs)]

\* a variant of ClearOn that leaves the documents map as it is
ClearOnKeepingDocuments(ix) ==
  [documents |-> ix.documents, doc_freq |-> EmptyMap, avg_doc_len |-> Zero]

\* BM25Index::clear, run without interruption
ClearOn(ix) == [documents |-> EmptyMap, doc_freq |-> EmptyMap, avg_doc_len |-> Zero]

\* BM25Index::len
LenOf(ix) == Cardinality(DOMAIN ix.documents)

\* BM25Index::is_empty
IsEmptyOf(ix) == DOMAIN ix.documents = {}

(***************************************************************************)
(* Scoring and search.                                                     *)
(***************************************************************************)
\* term_freq: occurrences of a term in a token list
TermFreq(tokens, term) == Cardinality({i \in 1..Len(tokens) : tokens[i] = term})

\* idf = ln((n - df + 0.5) / (df + 0.5) + 1.0), in units of 1/Scale;
\* the argument of ln is (2n + 2) / (2df + 1)
Idf(n, df) == Ln(2 * n + 2, 2 * df + 1)

\* idf * tf_norm for one query term, in units of 1/Scale, where
\* tf_norm = tf (k1 + 1) / (tf + k1 (1 - b + b doc_len / avg_doc_len)).
\* With avg_doc_len = 0.0 and doc_len > 0 the quotient is infinite and tf_norm 0.
TermScore(n, df, tf, doc_len, avg) ==
  IF avg.num = 0 THEN 0
  ELSE MulDiv(Idf(n, df),
              tf * (K1Num + K1Den) * BDen * avg.num,
              tf * K1Den * BDen * avg.num
                + K1Num * ((BDen - BNum) * avg.num + BNum * doc_len * avg.den))

\* the score of one document: the sum over the query tokens, repeated ones
\* included, with tf > 0 and df > 0
DocScore(doc_tokens, query_tokens, df, avg, n) ==
  SumSeq([i \in 1..Len(query_tokens) |->
            LET tf == TermFreq(doc_tokens, query_tokens[i])
                d == DfGet(df, query_tokens[i])
            IN IF tf > 0 /\ d > 0
               THEN TermScore(n, d, tf, Len(doc_tokens), avg)
               ELSE 0])

\* .filter(|(_, score)| *score > 0.0)
PositiveScore(pair) == pair[2] > 0

RECURSIVE InsertByScore(_, _)
\* s is sorted by score descending; e goes after every element that does not
\* compare Less to it (a stable sort)
InsertByScore(s, e) ==
  IF s = <<>> THEN <<e>>
  ELSE IF Head(s)[2] >= e[2] THEN <<Head(s)>> \o InsertByScore(Tail(s), e)
       ELSE <<e>> \o s

RECURSIVE SortByScore(_)
\* scores.sort_by(|a, b| b.1.partial_cmp(&a.1)): stable, by score descending
SortByScore(s) ==
  IF s = <<>> THEN <<>>
  ELSE InsertByScore(SortByScore(SubSeq(s, 1, Len(s) - 1)), s[Len(s)])

\* a variant of Truncate that keeps one element more
TruncateOneMore(s, k) == SubSeq(s, 1, Min(k + 1, Len(s)))

\* Vec::truncate
Truncate(s, k) == SubSeq(s, 1, Min(k, Len(s)))

\* the orders in which docs.iter() may visit the stored documents
IterOrders(docs) ==
  LET n == Cardinality(DOMAIN docs)
  IN {o \in [1..n -> DOMAIN docs] : \A i, j \in 1..n : i # j => o[i] # o[j]}

\* BM25Index::search on the values it reads: documents, doc_freq, avg_doc_len;
\* order is the order in which the hash map yields the documents
SearchOn(docs, df, avg, query, top_k, order) ==
  LET query_tokens == Tokenize(query)
      n == Cardinality(DOMAIN docs)
      scores == [i \in 1..Len(order) |->
                   <<order[i], DocScore(docs[order[i]].tokens, query_tokens, df, avg, n)>>]
  IN IF query_tokens = <<>> THEN <<>>
     ELSE IF DOMAIN docs = {} THEN <<>>
     ELSE Truncate(SortByScore(SelectSeq(scores, PositiveScore)), top_k)

(***************************************************************************)
(* Reciprocal rank fusion (search/hybrid.rs).  A fused score is an exact   *)
(* fraction; a weight is a fraction too.                                   *)
(***************************************************************************)
\* SearchConfig::rrf_k, handed to HybridSearch::new
RrfK == 60

\* a + b
FracAdd(a, b) == Frac(a.num * b.den + b.num * a.den, a.den * b.den)

\* a < b
FracLess(a, b) == a.num * b.den < b.num * a.den

\* a SearchResult
SearchResult(id, content, score, metadata, source) ==
  [id |-> id, content |-> content, score |-> score, metadata |-> metadata,
   source |-> source]

\* a variant of RrfScore that counts ranks from one less: weight / (k + rank)
RrfScoreWithoutPlusOne(weight, rrf_k, rank) ==
  Frac(weight.num, weight.den * (rrf_k + rank))

\* weight * (1.0 / (k + rank as f32 + 1.0)), rank counted from zero
RrfScore(weight, rrf_k, rank) ==
  Frac(weight.num, weight.den * (rrf_k + rank + 1))

\* a variant of FuseEntry in which the payload of the later result replaces
\* the one already held
FuseEntryTakingLast(scores, result, rrf_score) ==
  IF result.id \in DOMAIN scores
  THEN [score |-> FracAdd(scores[result.id].score, rrf_score), result |-> result]
  ELSE [score |-> rrf_score, result |-> result]

\* scores.entry(id).and_modify(|(score, _)| *score += rrf_score)
\*   .or_insert((rrf_score, Some(result))): the entry of result.id afterwards.
\* An entry always holds Some(result), so the bm25 loop never replaces one.
FuseEntry(scores, result, rrf_score) ==
  IF result.id \in DOMAIN scores
  THEN [score |-> FracAdd(scores[result.id].score, rrf_score),
        result |-> scores[result.id].result]
  ELSE [score |-> rrf_score, result |-> result]

RECURSIVE Accumulate(_, _, _, _, _)
\* one `for (rank, result) in ... .iter().enumerate()` loop of rrf_fusion,
\* from position i of the list on
Accumulate(scores, list, weight, rrf_k, i) ==
  IF i > Len(list) THEN scores
  ELSE Accumulate(MapPut(scores, list[i].id,
                         FuseEntry(scores, list[i], RrfScore(weight, rrf_k, i - 1))),
                  list, weight, rrf_k, i + 1)

RECURSIVE InsertByFused(_, _)
\* s is sorted by score descending; e goes after every element that does not
\* compare Less to it (a stable sort)
InsertByFused(s, e) ==
  IF s = <<>> THEN <<e>>
  ELSE IF ~FracLess(Head(s).score, e.score)
       THEN <<Head(s)>> \o InsertByFused(Tail(s), e)
       ELSE <<e>> \o s

RECURSIVE SortByFused(_)
\* results.sort_by(|a, b| b.1.partial_cmp(&a.1)): stable, by score descending
SortByFused(s) ==
  IF s = <<>> THEN <<>>
  ELSE InsertByFused(SortByFused(SubSeq(s, 1, Len(s) - 1)), s[Len(s)])

\* the scores map of rrf_fusion after its two loops: id -> [score, result]
FusedScores(vector_results, bm25_results, vector_weight, rrf_k) ==
  LET bm25_weight == Frac(vector_weight.den - vector_weight.num, vector_weight.den)
  IN Accumulate(Accumulate(EmptyMap, vector_results, vector_weight, rrf_k, 1),
                bm25_results, bm25_weight, rrf_k, 1)

\* HybridSearch::rrf_fusion; order is the order in which scores.into_iter()
\* yields the entries of the hash map
RrfFusion(vector_results, bm25_results, vector_weight, rrf_k, top_k, order) ==
  LET scores == FusedScores(vector_results, bm25_results, vector_weight, rrf_k)
      results == [i \in 1..Len(order) |->
                    [scores[order[i]].result EXCEPT !.score = scores[order[i]].score,
                                                    !.source = "hybrid"]]
  IN Truncate(SortByFused(results), top_k)

(***************************************************************************)
(* The coordinator (search/hybrid.rs): one BM25 index per collection and   *)
(* the three search modes.  The vector side (embedding::embed and the      *)
(* Qdrant search) is outside the model: what it answers is an input.       *)
(***************************************************************************)
\* Result::Ok and Result::Err of a search
Ok(results) == [ok |-> TRUE, results |-> results]
Err(err) == [ok |-> FALSE, err |-> err]

\* Result::unwrap_or_default
UnwrapOrDefault(r) == IF r.ok THEN r.results ELSE <<>>

\* BM25Index::get_document(id).unwrap_or_default()
GetDocument(index, id) ==
  IF id \in DOMAIN index.documents THEN ToStr(index.documents[id].content) ELSE ""

\* vector_search: an error of embed or of the store is returned as it is; the
\* store answers with its ranking cut to the limit top_k
VectorSearch(store, top_k) ==
  IF store.ok THEN Ok(Truncate(store.results, top_k)) ELSE store

\* a variant of Bm25Search that answers with the empty list when the
\* collection has no index
Bm25SearchEmptyWhenMissing(indices, collection, query, top_k, order) ==
  IF collection \notin DOMAIN indices THEN Ok(<<>>)
  ELSE LET index == indices[collection]
           pairs == SearchOn(index.documents, index.doc_freq, index.avg_doc_len,
                             query, top_k, order)
       IN Ok([i \in 1..Len(pairs) |->
                SearchResult(pairs[i][1], GetDocument(index, pairs[i][1]),
                             Frac(pairs[i][2], Scale), EmptyMap, "bm25")])

\* bm25_search; order is the order in which the index visits its documents
Bm25Search(indices, collection, query, top_k, order) ==
  IF collection \notin DOMAIN indices THEN Err("BM25 index not found")
  ELSE LET index == indices[collection]
           pairs == SearchOn(index.documents, index.doc_freq, index.avg_doc_len,
                             query, top_k, order)
       IN Ok([i \in 1..Len(pairs) |->
                SearchResult(pairs[i][1], GetDocument(index, pairs[i][1]),
                             Frac(pairs[i][2], Scale), EmptyMap, "bm25")])

\* a variant of HybridSearch that returns the error of a failed branch
HybridSearchPropagating(vector, bm25, vector_weight, rrf_k, top_k, order) ==
  IF ~vector.ok THEN vector
  ELSE IF ~bm25.ok THEN bm25
  ELSE Ok(RrfFusion(vector.results, bm25.results, vector_weight, rrf_k, top_k, order))

\* hybrid_search after the join of its two branches: vector and bm25 are what
\* the branches returned for fetch_k
HybridSearch(vector, bm25, vector_weight, rrf_k, top_k, order) ==
  Ok(RrfFusion(UnwrapOrDefault(vector), UnwrapOrDefault(bm25),
               vector_weight, rrf_k, top_k, order))

\* the orders in which the index of a collection may visit its documents
IndexOrders(indices, collection) ==
  IF collection \in DOMAIN indices THEN IterOrders(indices[collection].documents)
  ELSE {<<>>}

(***************************************************************************)
(* State.                                                                  *)
(***************************************************************************)
VARIABLES
  documents,    \* id -> [content, tokens]
  doc_freq,     \* term -> number of add_document calls whose content had it
  avg_doc_len,  \* fraction
  last,         \* the last call made and what it returned
  results,      \* what the last search returned
  cleared,      \* history: the number of documents the last clear removed,
                \* NotCleared once add_document has been called after it
  pc,           \* thread -> where it is in the call it is making
  call,         \* thread -> the arguments and locals of that call
  readers,      \* lock -> the threads that hold it for reading
  hist,         \* history: the add_document and clear calls made by threads
  tok_text,     \* the text handed to tokenize
  tok_out,      \* what tokenize returned for it
  fusion_in,    \* the arguments handed to rrf_fusion
  fusion_out,   \* what rrf_fusion returned for them
  bm25_indices, \* HybridSearch: collection -> BM25 index
  coord_out,    \* the last call made on the coordinator and what it returned
  points,       \* the vector store: collection -> point id -> payload
  map_lock,     \* the RwLock around bm25_indices: the thread that holds it
                \* for writing and the threads that hold it for reading
  rpc_in,       \* a Search request and what the vector side and the reranker
                \* answer while it is served
  rpc_out,      \* what the Search handler did with it
  EMBEDDING_MODEL, \* the cell of embedding/mod.rs
  RERANKER,     \* the cell of reranker/mod.rs
  loads,        \* history: the number of model objects constructed so far
  rt_out,       \* the last call on the runtimes and what it returned
  fn_in,        \* the arguments of a call of Reranker::rerank, of
                \* SkillExtractor::extract or of the id conversions of qdrant.rs
  fn_out        \* what that call returned

seqVars == <<last, cleared>>
concVars == <<pc, call, readers, hist>>
\* one BM25Index and the calls made on it
indexVars == <<documents, doc_freq, avg_doc_len, last, results, cleared, pc, call, readers, hist>>
\* a call of tokenize
tokVars == <<tok_text, tok_out>>
\* everything but the one BM25Index
\* a call of rrf_fusion
fusionVars == <<fusion_in, fusion_out>>
\* the coordinator and the calls made on it
coordVars == <<bm25_indices, coord_out, points, map_lock>>
\* a call of the Search handler
rpcVars == <<rpc_in, rpc_out>>
\* the two process-wide runtimes and the calls made on them
runtimeVars == <<EMBEDDING_MODEL, RERANKER, loads, rt_out>>
\* a call of one of the other pure functions
fnVars == <<fn_in, fn_out>>
otherVars == <<tokVars, fusionVars, coordVars, rpcVars, runtimeVars, fnVars>>
vars == <<indexVars, otherVars>>

\* threads that call into one shared index
Threads == {"t1", "t2"}

\* the two locks that a call holds across more than one statement
Locks == {"documents", "doc_freq"}

NoCall == [op |-> "none"]

NotCleared == 0 - 1

\* the three fields as one value
Index == [documents |-> documents, doc_freq |-> doc_freq, avg_doc_len |-> avg_doc_len]

\* BM25Index::new, with no call made and no thread inside a call
IndexNew ==
  /\ documents = NewIndex.documents
  /\ doc_freq = NewIndex.doc_freq
  /\ avg_doc_len = NewIndex.avg_doc_len
  /\ last = [op |-> "new"]
  /\ results = <<>>
  /\ cleared = NotCleared
  /\ pc = [t \in Threads |-> "idle"]
  /\ call = [t \in Threads |-> NoCall]
  /\ readers = [l \in Locks |-> {}]
  /\ hist = <<>>

\* tokenize has not been called
TokIdle ==
  /\ tok_text = <<>>
  /\ tok_out = NoCall

\* rrf_fusion has not been called
FusionIdle ==
  /\ fusion_in = NoCall
  /\ fusion_out = NoCall

\* HybridSearch::new
\* the lock around bm25_indices, held by no thread
Unlocked == [writer |-> "none", readers |-> {}]

CoordNew ==
  /\ bm25_indices = EmptyMap
  /\ coord_out = NoCall
  /\ points = EmptyMap
  /\ map_lock = Unlocked

\* the Search handler has not been called
RpcIdle ==
  /\ rpc_in = NoCall
  /\ rpc_out = NoCall

\* Option::None and Option::Some of a model handle
None == [some |-> FALSE]
Some(model) == [some |-> TRUE, model |-> model]

\* OnceCell::new for both cells, at process start
RuntimeNew ==
  /\ EMBEDDING_MODEL = None
  /\ RERANKER = None
  /\ loads = 0
  /\ rt_out = NoCall

\* none of the other pure functions has been called
FnIdle ==
  /\ fn_in = NoCall
  /\ fn_out = NoCall

Init ==
  /\ IndexNew
  /\ TokIdle
  /\ FusionIdle
  /\ CoordNew
  /\ RpcIdle
  /\ RuntimeNew
  /\ FnIdle

\* add_document(id, content), called with no other call in progress
AddDocument(id, content) ==
  /\ \A t \in UniqueTerms(Tokenize(content)) : DfGet(doc_freq, t) < MaxDf
  /\ LET ix == AddDocumentOn(Index, id, content)
     IN /\ documents' = ix.documents
        /\ doc_freq' = ix.doc_freq
        /\ avg_doc_len' = ix.avg_doc_len
  /\ last' = [op |-> "add", id |-> id, content |-> content]
  /\ results' = <<>>
  /\ cleared' = NotCleared
  /\ UNCHANGED <<concVars, otherVars>>

\* clear(), called with no other call in progress
Clear ==
  /\ LET ix == ClearOn(Index)
     IN /\ documents' = ix.documents
        /\ doc_freq' = ix.doc_freq
        /\ avg_doc_len' = ix.avg_doc_len
  /\ last' = [op |-> "clear"]
  /\ results' = <<>>
  /\ cleared' = LenOf(Index)
  /\ UNCHANGED <<concVars, otherVars>>

\* search(query, top_k), called with no other call in progress
Search(query, top_k) ==
  /\ \E order \in IterOrders(documents) :
       results' = SearchOn(documents, doc_freq, avg_doc_len, query, top_k, order)
  /\ last' = [op |-> "search", query |-> query, top_k |-> top_k]
  /\ UNCHANGED <<documents, doc_freq, avg_doc_len, cleared>>
  /\ UNCHANGED <<concVars, otherVars>>

\* len() and is_empty()
Observe ==
  /\ last' = [op |-> "len", len |-> LenOf(Index), is_empty |-> IsEmptyOf(Index)]
  /\ results' = <<>>
  /\ UNCHANGED <<documents, doc_freq, avg_doc_len, cleared>>
  /\ UNCHANGED <<concVars, otherVars>>

Next ==
  \/ \E id \in Ids, content \in Contents : AddDocument(id, content)
  \/ Clear
  \/ \E query \in Queries, top_k \in 0..MaxTopK : Search(query, top_k)
  \/ Observe

Spec == Init /\ [][Next]_vars

(***************************************************************************)
(* Properties of the index under calls made one at a time (Spec).          *)
(***************************************************************************)
\* the stored documents whose token list contains term t
DocsWith(t) == {id \in DOMAIN documents : t \in UniqueTerms(documents[id].tokens)}

\* every term of doc_freq or of a stored document
KnownTerms ==
  DOMAIN doc_freq \cup UNION {UniqueTerms(documents[id].tokens) : id \in DOMAIN documents}

\* the number of documents stored, N
DocCount == Cardinality(DOMAIN documents)

\* the (document, position) pairs of all stored tokens
StoredTokens ==
  UNION {{<<id, i>> : i \in 1..Len(documents[id].tokens)} : id \in DOMAIN documents}

\* C1: in every state reached by add_document and clear calls, re-adds
\* included, doc_freq[t] is the number of stored documents whose token list
\* contains t, for every term t.
C1_DocFreqCountsStoredDocuments ==
  \A t \in KnownTerms : DfGet(doc_freq, t) = Cardinality(DocsWith(t))

\* a step that repeats the add_document call made just before it: the only
\* action that follows an add and leaves last as it is
ReAddStep ==
  /\ last.op = "add"
  /\ last' = last

\* every query has the same search result before and after the step
SameSearchAcrossStep ==
  \A query \in Queries, top_k \in 0..MaxTopK, order \in IterOrders(documents) :
    SearchOn(documents', doc_freq', avg_doc_len', query, top_k, order)
      = SearchOn(documents, doc_freq, avg_doc_len, query, top_k, order)

\* C2: add_document(id, c) followed by a second add_document(id, c) gives
\* every query the same search result (ids and scores) as the first add alone.
C2_ReAddKeepsSearchResults == [][ReAddStep => SameSearchAcrossStep]_vars

\* C5: after every completed add_document or clear, avg_doc_len is the total
\* number of stored tokens divided by the number of stored documents, and 0
\* when no document is stored.
C5_AvgDocLenIsMean ==
  IF DocCount = 0
  THEN avg_doc_len = Zero
  ELSE /\ avg_doc_len.den > 0
       /\ avg_doc_len.num * DocCount = Cardinality(StoredTokens) * avg_doc_len.den

\* C5 witness: an add_document that replaced a stored id has returned, two
\* documents of different lengths are stored and the mean is 3/2.
C5_Witness ==
  /\ last.op = "add"
  /\ DocCount = 2
  /\ \E t \in KnownTerms : DfGet(doc_freq, t) > Cardinality(DocsWith(t))
  /\ avg_doc_len = [num |-> 3, den |-> 2]

\* C6: search returns at most top_k pairs, each id a stored document that
\* appears once, in non-increasing score order, none with score zero.
C6_SearchResultWellFormed ==
  last.op = "search" =>
    /\ Len(results) <= last.top_k
    /\ \A i \in 1..Len(results) :
         /\ results[i][1] \in DOMAIN documents
         /\ results[i][2] # 0
         /\ \A j \in 1..Len(results) : i < j =>
              /\ results[i][1] # results[j][1]
              /\ results[i][2] >= results[j][2]

\* C6 witness: three documents match the query, top_k = 2 cuts one of them
\* off, and the two returned have different scores.
C6_Witness ==
  /\ last.op = "search"
  /\ last.top_k = 2
  /\ Len(results) = 2
  /\ results[1][2] > results[2][2]
  /\ DocCount = 3
  /\ \A id \in DOMAIN documents :
       UniqueTerms(documents[id].tokens) \cap UniqueTerms(Tokenize(last.query)) # {}

\* C7: two returned documents with the same score come in lexicographic
\* order of id.
C7_TiesInIdOrder ==
  last.op = "search" =>
    \A i, j \in 1..Len(results) :
      (i < j /\ results[i][2] = results[j][2]) =>
        IdRank(results[i][1]) < IdRank(results[j][1])

\* search returns the empty list for every query, top_k and iteration order
AllSearchesEmpty ==
  \A query \in Queries, top_k \in 0..MaxTopK, order \in IterOrders(documents) :
    SearchOn(documents, doc_freq, avg_doc_len, query, top_k, order) = <<>>

DocsSharing(query) ==
  {id \in DOMAIN documents :
     UniqueTerms(documents[id].tokens) \cap UniqueTerms(Tokenize(query)) # {}}

\* C9: search(q, k) with k >= len() returns exactly the stored documents
\* that share a token with q, each with a positive score.
C9_SearchReturnsSharingDocs ==
  (last.op = "search" /\ last.top_k >= LenOf(Index)) =>
    /\ {results[i][1] : i \in 1..Len(results)} = DocsSharing(last.query)
    /\ \A i \in 1..Len(results) : results[i][2] > 0

\* C10: df(t) is at most the document count N for every term, and the idf
\* search computes from them is not negative.
C10_DfAtMostDocCount ==
  \A t \in DOMAIN doc_freq :
    /\ doc_freq[t] <= DocCount
    /\ Idf(DocCount, doc_freq[t]) >= 0

(***************************************************************************)
(* tokenize as a function of its text (SpecTok).                           *)
(***************************************************************************)
\* longest text handed to tokenize
MaxTextLen == 3

\* the characters of the texts: a lowercase and an uppercase letter, a digit,
\* a separator and a letter of two bytes
TokChars == {"a", "B", "1", " ", "é"}

\* the texts of at most MaxTextLen characters
TokTexts == UNION {[1..n -> TokChars] : n \in 0..MaxTextLen}

InitTok ==
  /\ tok_text \in TokTexts
  /\ tok_out = NoCall
  /\ IndexNew
  /\ FusionIdle
  /\ CoordNew
  /\ RpcIdle
  /\ RuntimeNew
  /\ FnIdle

\* tokenize(tok_text)
TokenizeCall ==
  /\ tok_out = NoCall
  /\ tok_out' = [op |-> "tokenize", tokens |-> Tokenize(tok_text)]
  /\ UNCHANGED <<tok_text, indexVars, fusionVars, coordVars, rpcVars, runtimeVars, fnVars>>

NextTok == TokenizeCall

SpecTok == InitTok /\ [][NextTok]_vars

\* the maximal runs of alphanumeric characters of a text, as <<first, last>>
\* positions
AlnumRuns(text) ==
  {r \in (1..Len(text)) \X (1..Len(text)) :
     /\ r[1] <= r[2]
     /\ \A i \in r[1]..r[2] : IsAlphanumeric(text[i])
     /\ r[1] = 1 \/ ~IsAlphanumeric(text[r[1] - 1])
     /\ r[2] = Len(text) \/ ~IsAlphanumeric(text[r[2] + 1])}

\* the runs of at least two characters
LongRuns(text) == {r \in AlnumRuns(text) : r[2] - r[1] + 1 >= 2}

\* the lowercase characters of run r of the text, as one string
RunStr(text, r) == ToStr([i \in 1..(r[2] - r[1] + 1) |-> LowerChar(text[r[1] + i - 1])])

\* C11: tokenize returns, in order of position, exactly the lowercased
\* pieces between non-alphanumeric characters that have at least two
\* characters: empty and single-character pieces are dropped, whatever the
\* character is.
C11_TokensAreLongRuns ==
  tok_out.op = "tokenize" =>
    /\ Len(tok_out.tokens) = Cardinality(LongRuns(tok_text))
    /\ \A r \in LongRuns(tok_text) :
         tok_out.tokens[1 + Cardinality({q \in LongRuns(tok_text) : q[1] < r[1]})]
           = RunStr(tok_text, r)

(***************************************************************************)
(* rrf_fusion as a function of its arguments (SpecFusion).                 *)
(***************************************************************************)
\* largest top_k handed to rrf_fusion
MaxFusionTopK == 4

\* ids of the results, listed in ascending order
FusionIdOrder == <<"A", "B", "C", "D">>
FusionIdRank(id) == CHOOSE i \in 1..Len(FusionIdOrder) : FusionIdOrder[i] = id

\* the ids the vector store holds and the ids the lexical index holds
VectorIds == {"A", "B", "C"}
Bm25Ids == {"B", "D", "A"}

\* the lists of distinct ids of S
Rankings(S) ==
  UNION {{l \in [1..n -> S] : \A i, j \in 1..n : i # j => l[i] # l[j]} :
           n \in 0..Cardinality(S)}

\* a result of QdrantClient::search at position i: content is the payload's
\* "content" entry, the score falls with the position
VectorResult(id, i) ==
  SearchResult(id, "stored " \o id, Frac(1, i + 1), [content |-> "stored " \o id], "vector")

\* a result of bm25_search at position i: the indexed content, no metadata
Bm25Result(id, i) ==
  SearchResult(id, "indexed " \o id, Frac(5, i), EmptyMap, "bm25")

\* vector weights: 0.5, 0.7 and 1.0
FusionWeights == {Frac(1, 2), Frac(7, 10), Frac(1, 1)}

InitFusion ==
  /\ \E v \in Rankings(VectorIds), b \in Rankings(Bm25Ids),
        w \in FusionWeights, top_k \in 0..MaxFusionTopK :
       fusion_in = [vector_results |-> [i \in 1..Len(v) |-> VectorResult(v[i], i)],
                    bm25_results |-> [i \in 1..Len(b) |-> Bm25Result(b[i], i)],
                    vector_weight |-> w,
                    top_k |-> top_k]
  /\ fusion_out = NoCall
  /\ IndexNew
  /\ TokIdle
  /\ CoordNew
  /\ RpcIdle
  /\ RuntimeNew
  /\ FnIdle

\* rrf_fusion(vector_results, bm25_results, vector_weight, top_k)
RrfFusionCall ==
  /\ fusion_out = NoCall
  /\ \E order \in IterOrders(FusedScores(fusion_in.vector_results, fusion_in.bm25_results,
                                          fusion_in.vector_weight, RrfK)) :
       fusion_out' = [op |-> "rrf_fusion",
                      fused |-> RrfFusion(fusion_in.vector_results, fusion_in.bm25_results,
                                          fusion_in.vector_weight, RrfK,
                                          fusion_in.top_k, order)]
  /\ UNCHANGED <<fusion_in, indexVars, tokVars, coordVars, rpcVars, runtimeVars, fnVars>>

NextFusion == RrfFusionCall

SpecFusion == InitFusion /\ [][NextFusion]_vars

\* the ids of a list of results
IdsOf(list) == {list[i].id : i \in 1..Len(list)}

\* the zero-based ranks at which id stands in a list
RanksOf(list, id) == {i - 1 : i \in {j \in 1..Len(list) : list[j].id = id}}

\* weight / (k + r + 1) for the rank r of id in the list as an unreduced
\* fraction, 0 when the list does not hold id
RankShare(list, id, num, den) ==
  IF RanksOf(list, id) = {} THEN [num |-> 0, den |-> 1]
  ELSE [num |-> num, den |-> den * (RrfK + (CHOOSE r \in RanksOf(list, id) : TRUE) + 1)]

\* score is vector_weight/(k + r + 1) + (1 - vector_weight)/(k + r' + 1) for
\* the ranks r and r' of id in the two lists of fusion_in, a list that does
\* not hold id adding nothing
IsFusedScoreOf(score, id) ==
  LET w == fusion_in.vector_weight
      v == RankShare(fusion_in.vector_results, id, w.num, w.den)
      b == RankShare(fusion_in.bm25_results, id, w.den - w.num, w.den)
  IN score.num * (v.den * b.den) = score.den * (v.num * b.den + b.num * v.den)

\* the ids of the fused list, in order
FusedIds == [i \in 1..Len(fusion_out.fused) |-> fusion_out.fused[i].id]

\* the example of the fusion: vector [A, B, C], BM25 [B, D, A], weight 0.5
IsFusionExample ==
  /\ [i \in 1..Len(fusion_in.vector_results) |-> fusion_in.vector_results[i].id]
       = <<"A", "B", "C">>
  /\ [i \in 1..Len(fusion_in.bm25_results) |-> fusion_in.bm25_results[i].id]
       = <<"B", "D", "A">>
  /\ fusion_in.vector_weight = Frac(1, 2)

\* C12: every id of either list has exactly one fused result (as far as
\* top_k lets it in), whose score is vector_weight/(k + r + 1)
\* + (1 - vector_weight)/(k + r' + 1), a list that does not hold the id
\* adding nothing; vector [A, B, C] and BM25 [B, D, A] with k = 60 and
\* weight 0.5 come out as B, A, D, C.
C12_FusedScoreFormula ==
  fusion_out.op = "rrf_fusion" =>
    LET fused == fusion_out.fused
        ids == IdsOf(fusion_in.vector_results) \cup IdsOf(fusion_in.bm25_results)
    IN /\ \A i \in 1..Len(fused) :
            /\ fused[i].id \in ids
            /\ IsFusedScoreOf(fused[i].score, fused[i].id)
            /\ \A j \in 1..Len(fused) : i # j => fused[i].id # fused[j].id
       /\ Len(fused) = Min(fusion_in.top_k, Cardinality(ids))
       /\ (IsFusionExample /\ fusion_in.top_k >= 4) => FusedIds = <<"B", "A", "D", "C">>

\* C12 witness: the example has been fused with top_k = 4.
C12_Witness ==
  /\ fusion_out.op = "rrf_fusion"
  /\ IsFusionExample
  /\ fusion_in.top_k = 4
  /\ FusedIds = <<"B", "A", "D", "C">>

\* C13: the fused list has at most top_k results, in descending order of
\* fused score, results of equal score in ascending order of id.
C13_FusedOrderDeterministic ==
  fusion_out.op = "rrf_fusion" =>
    LET fused == fusion_out.fused
    IN /\ Len(fused) <= fusion_in.top_k
       /\ \A i, j \in 1..Len(fused) : i < j =>
            /\ ~FracLess(fused[i].score, fused[j].score)
            /\ fused[i].score = fused[j].score =>
                 FusionIdRank(fused[i].id) < FusionIdRank(fused[j].id)

\* C14: a fused result has the content and metadata of the vector result of
\* its id when the vector list holds the id, and of the BM25 result only
\* when it does not; its source is hybrid and its score the fused score.
C14_PayloadFromVectorFirst ==
  fusion_out.op = "rrf_fusion" =>
    \A i \in 1..Len(fusion_out.fused) :
      LET r == fusion_out.fused[i]
          from == IF r.id \in IdsOf(fusion_in.vector_results)
                  THEN fusion_in.vector_results
                  ELSE fusion_in.bm25_results
      IN /\ \E j \in 1..Len(from) :
              /\ from[j].id = r.id
              /\ r.content = from[j].content
              /\ r.metadata = from[j].metadata
         /\ r.source = "hybrid"
         /\ IsFusedScoreOf(r.score, r.id)

\* C14 witness: the fused list holds an id of both lists that the BM25 list
\* ranks first, and an id of the BM25 list alone.
C14_Witness ==
  /\ fusion_out.op = "rrf_fusion"
  /\ Len(fusion_in.bm25_results) >= 2
  /\ fusion_in.bm25_results[1].id \in IdsOf(fusion_in.vector_results)
  /\ fusion_in.bm25_results[1].id \in IdsOf(fusion_out.fused)
  /\ \E i \in 1..Len(fusion_out.fused) :
       /\ fusion_out.fused[i].id \notin IdsOf(fusion_in.vector_results)
       /\ fusion_out.fused[i].content = "indexed " \o fusion_out.fused[i].id

(***************************************************************************)
(* Calls on the coordinator, made one at a time (SpecCoord).               *)
(***************************************************************************)
\* collection names
Collections == {"resumes", "jobs"}

\* the documents given to add_to_bm25: id -> content
CoordDocs == [A |-> <<"a", "b">>, B |-> <<"c", "d", " ", "a", "b">>]

\* queries
CoordQueries == {<<"a", "b">>}

\* top_k values
CoordTopKs == {1, 2}

\* search modes: Vector, BM25 and the default, Hybrid with weight 0.7
Modes ==
  {[kind |-> "vector"], [kind |-> "bm25"],
   [kind |-> "hybrid", vector_weight |-> Frac(7, 10)]}

\* what the vector side answers for a query: an error, or the ranking of
\* the points the store holds
StoreAnswers ==
  {Err("vector search failed"), Ok(<<>>)}
    \cup {Ok([i \in 1..Len(v) |-> VectorResult(v[i], i)]) :
            v \in {<<"A">>, <<"B", "A">>}}

\* add_to_bm25(collection, id, content)
AddToBm25(collection, id) ==
  LET index == IF collection \in DOMAIN bm25_indices
               THEN bm25_indices[collection] ELSE NewIndex
  IN /\ \A t \in UniqueTerms(Tokenize(CoordDocs[id])) : DfGet(index.doc_freq, t) < MaxDf
     /\ bm25_indices' = MapPut(bm25_indices, collection,
                               AddDocumentOn(index, id, CoordDocs[id]))
     /\ coord_out' = [op |-> "add_to_bm25", collection |-> collection, id |-> id]
     /\ UNCHANGED <<points, map_lock, indexVars, tokVars, fusionVars, rpcVars, runtimeVars, fnVars>>

\* a variant of ClearBm25 that clears the index of every collection
ClearBm25OfAll(collection) ==
  /\ bm25_indices' = [c \in DOMAIN bm25_indices |-> ClearOn(bm25_indices[c])]
  /\ coord_out' = [op |-> "clear_bm25", collection |-> collection]
  /\ UNCHANGED <<points, map_lock, indexVars, tokVars, fusionVars, rpcVars, runtimeVars, fnVars>>

\* clear_bm25(collection)
ClearBm25(collection) ==
  /\ bm25_indices' = IF collection \in DOMAIN bm25_indices
                     THEN MapPut(bm25_indices, collection, ClearOn(bm25_indices[collection]))
                     ELSE bm25_indices
  /\ coord_out' = [op |-> "clear_bm25", collection |-> collection]
  /\ UNCHANGED <<points, map_lock, indexVars, tokVars, fusionVars, rpcVars, runtimeVars, fnVars>>

\* get_or_create_bm25(collection)
GetOrCreateBm25(collection) ==
  /\ bm25_indices' = IF collection \in DOMAIN bm25_indices
                     THEN bm25_indices
                     ELSE MapPut(bm25_indices, collection, NewIndex)
  /\ coord_out' = [op |-> "get_or_create_bm25", collection |-> collection]
  /\ UNCHANGED <<points, map_lock, indexVars, tokVars, fusionVars, rpcVars, runtimeVars, fnVars>>

\* what search(collection, query, top_k, mode) returns when the vector side
\* answers store, with the two branch results of the hybrid mode:
\* the set of [ret, vector, bm25] over the hash-map orders
SearchOutcomes(indices, collection, query, top_k, mode, store) ==
  IF mode.kind = "vector"
  THEN {[ret |-> VectorSearch(store, top_k)]}
  ELSE IF mode.kind = "bm25"
  THEN {[ret |-> Bm25Search(indices, collection, query, top_k, o)] :
          o \in IndexOrders(indices, collection)}
  ELSE UNION {
         LET vector == VectorSearch(store, top_k * 3)
             bm25 == Bm25Search(indices, collection, query, top_k * 3, o)
         IN {[ret |-> HybridSearch(vector, bm25, mode.vector_weight, RrfK, top_k, f),
              vector |-> vector, bm25 |-> bm25] :
               f \in IterOrders(FusedScores(UnwrapOrDefault(vector), UnwrapOrDefault(bm25),
                                            mode.vector_weight, RrfK))} :
         o \in IndexOrders(indices, collection)}

\* search(collection, query, top_k, mode, filters)
CoordSearch(collection, query, top_k, mode, store) ==
  /\ \E out \in SearchOutcomes(bm25_indices, collection, query, top_k, mode, store) :
       coord_out' = [op |-> "search", collection |-> collection, query |-> query,
                     top_k |-> top_k, mode |-> mode, out |-> out]
  /\ UNCHANGED <<bm25_indices, points, map_lock, indexVars, tokVars, fusionVars, rpcVars,
                 runtimeVars, fnVars>>

NextCoord ==
  \/ \E collection \in Collections, id \in DOMAIN CoordDocs : AddToBm25(collection, id)
  \/ \E collection \in Collections : ClearBm25(collection)
  \/ \E collection \in Collections : GetOrCreateBm25(collection)
  \/ \E collection \in Collections, query \in CoordQueries, top_k \in CoordTopKs,
        mode \in Modes, store \in StoreAnswers :
       CoordSearch(collection, query, top_k, mode, store)

SpecCoord == Init /\ [][NextCoord]_vars

\* what the BM25 searches of the model return on a collection
Bm25Answers(indices, collection) ==
  {out.ret : out \in UNION {SearchOutcomes(indices, collection, query, top_k,
                                           [kind |-> "bm25"], Ok(<<>>)) :
                              query \in CoordQueries, top_k \in CoordTopKs}}

\* C28: add_to_bm25 and clear_bm25 on one collection leave the index of
\* every other collection as it is (its documents, doc_freq and avg_doc_len,
\* hence what a BM25 search on it returns) and create no index for another
\* collection; clear_bm25 on a collection without an index changes nothing.
C28_CollectionsIsolated ==
  [][coord_out'.op \in {"add_to_bm25", "clear_bm25"} =>
       /\ \A c \in Collections \ {coord_out'.collection} :
            /\ c \in DOMAIN bm25_indices' <=> c \in DOMAIN bm25_indices
            /\ c \in DOMAIN bm25_indices =>
                 /\ bm25_indices'[c].documents = bm25_indices[c].documents
                 /\ bm25_indices'[c].doc_freq = bm25_indices[c].doc_freq
                 /\ bm25_indices'[c].avg_doc_len = bm25_indices[c].avg_doc_len
            /\ Bm25Answers(bm25_indices', c) = Bm25Answers(bm25_indices, c)
       /\ (coord_out'.op = "clear_bm25"
             /\ coord_out'.collection \notin DOMAIN bm25_indices) =>
            bm25_indices' = bm25_indices]_vars

\* "resumes" has just been cleared while "jobs" holds its two documents
C28_Witness ==
  /\ coord_out = [op |-> "clear_bm25", collection |-> "resumes"]
  /\ DOMAIN bm25_indices = {"resumes", "jobs"}
  /\ DOMAIN bm25_indices["resumes"].documents = {}
  /\ DOMAIN bm25_indices["jobs"].documents = {"A", "B"}

\* the last call was a hybrid search
HybridSearched == coord_out.op = "search" /\ coord_out.mode.kind = "hybrid"

\* C15: a hybrid search in which exactly one branch fails (the BM25 branch
\* fails when the collection has no index) succeeds and returns the ranking
\* of the other branch fused with an empty list: its first top_k results in
\* their order, each with that branch's weight / (k + rank + 1) as score.
C15_OneBranchFailureTolerated ==
  (HybridSearched /\ coord_out.out.vector.ok # coord_out.out.bm25.ok) =>
    LET out == coord_out.out
        w == coord_out.mode.vector_weight
        other == IF out.vector.ok THEN out.vector.results ELSE out.bm25.results
        num == IF out.vector.ok THEN w.num ELSE w.den - w.num
    IN /\ out.ret.ok
       /\ Len(out.ret.results) = Min(coord_out.top_k, Len(other))
       /\ \A i \in 1..Len(out.ret.results) :
            LET r == out.ret.results[i]
            IN /\ r.id = other[i].id
               /\ r.content = other[i].content
               /\ r.metadata = other[i].metadata
               /\ r.source = "hybrid"
               /\ r.score.num * (w.den * (RrfK + i)) = r.score.den * num

\* C15 witness: the vector branch failed, the index of the collection
\* ranked two documents and top_k = 1 let the first of them through.
C15_Witness ==
  /\ HybridSearched
  /\ ~coord_out.out.vector.ok
  /\ coord_out.out.bm25.ok
  /\ Len(coord_out.out.bm25.results) = 2
  /\ coord_out.top_k = 1
  /\ Len(coord_out.out.ret.results) = 1

\* C16: a hybrid search in which both branches fail returns an error, the
\* one of the vector branch, and not a successful empty result.
C16_BothBranchesFailIsError ==
  (HybridSearched /\ ~coord_out.out.vector.ok /\ ~coord_out.out.bm25.ok) =>
    /\ ~coord_out.out.ret.ok
    /\ coord_out.out.ret = coord_out.out.vector

\* C17: a search in BM25 mode on a collection that has no index fails with
\* the index-missing error, returns no results and does not create the
\* index.
C17_Bm25ModeMissingIndexFails ==
  [][(/\ coord_out'.op = "search"
      /\ coord_out'.mode.kind = "bm25"
      /\ coord_out'.collection \notin DOMAIN bm25_indices)
       => /\ coord_out'.out.ret = Err("BM25 index not found")
          /\ bm25_indices' = bm25_indices]_vars

\* C17 witness: a BM25-mode search on a collection without an index has
\* failed while another collection has an index with a document.
C17_Witness ==
  /\ coord_out.op = "search"
  /\ coord_out.mode.kind = "bm25"
  /\ coord_out.collection \notin DOMAIN bm25_indices
  /\ ~coord_out.out.ret.ok
  /\ \E c \in DOMAIN bm25_indices : ~IsEmptyOf(bm25_indices[c])

(***************************************************************************)
(* The Search handler (grpc/service.rs) as a function of the request, of   *)
(* the coordinator's indexes and of what the vector side and the reranker  *)
(* answer (SpecService).                                                   *)
(***************************************************************************)
\* top_k of a request that gives none
DefaultTopK == 10

\* candidates fetched per result for reranking when rerank_top_k is not given
RerankFetchFactor == 5

\* most documents the reranker scores in the model
MaxCandidates == 2

\* what the reranker answers: an error (not initialized, inference failed)
\* or one score per document
RerankAnswers ==
  {Err("rerank failed")}
    \cup {[ok |-> TRUE, scores |-> sc] : sc \in [1..MaxCandidates -> {1, 2}]}

\* reranker::rerank and Reranker::rerank, with the handler's conversion of a
\* RankedDocument: the documents by score descending (a stable sort), the
\* first top_k of them, each with the reranker's score and source hybrid
Rerank(docs, top_k, answer) ==
  IF ~answer.ok THEN answer
  ELSE LET ranked == Truncate(SortByScore([i \in 1..Len(docs) |-> <<i, answer.scores[i]>>]),
                              top_k)
       IN Ok([n \in 1..Len(ranked) |->
                [docs[ranked[n][1]] EXCEPT !.score = Frac(ranked[n][2], 1),
                                           !.source = "hybrid"]])

\* top_k of the handler
EffectiveTopK(req) == IF req.top_k > 0 THEN req.top_k ELSE DefaultTopK

\* the search mode of the handler
ModeOf(req) ==
  IF req.use_hybrid
  THEN [kind |-> "hybrid",
        vector_weight |-> IF req.vector_weight.num > 0 THEN req.vector_weight
                          ELSE Frac(7, 10)]
  ELSE [kind |-> "vector"]

\* fetch_k of the handler
FetchK(req) ==
  IF req.use_reranking
  THEN IF req.rerank_top_k > 0 THEN req.rerank_top_k
       ELSE EffectiveTopK(req) * RerankFetchFactor
  ELSE EffectiveTopK(req)

\* MlService::search: the outcomes over the hash-map orders, each with
\* fetch_k, the mode handed to the coordinator's search, what that search
\* returned and the response
SearchHandler(indices, req, store, answer) ==
  {[fetch_k |-> FetchK(req),
    found |-> out.ret,
    response |->
      IF ~out.ret.ok THEN Err("Search failed")
      ELSE IF req.use_reranking /\ out.ret.results # <<>>
      THEN LET ranked == Rerank(out.ret.results, EffectiveTopK(req), answer)
           IN IF ranked.ok THEN ranked ELSE Err("Reranking failed")
      ELSE Ok(Truncate(out.ret.results, EffectiveTopK(req))),
    search_mode |-> ModeOf(req).kind,
    mode |-> ModeOf(req)] :
     out \in SearchOutcomes(indices, req.collection, req.query, FetchK(req),
                            ModeOf(req), store)}

\* Search requests
SearchRequests ==
  [collection : {"resumes", ""}, query : CoordQueries, top_k : {0, 1, 5},
   use_hybrid : BOOLEAN, vector_weight : {Zero, Frac(1, 2), Frac(1, 1), Frac(3, 2)},
   use_reranking : BOOLEAN, rerank_top_k : {0, 3, 25}]

\* the coordinator's indexes when the request arrives: none, or one for
\* "resumes" with the two documents
ServiceIndices ==
  {EmptyMap,
   [c \in {"resumes"} |->
      AddDocumentOn(AddDocumentOn(NewIndex, "A", CoordDocs["A"]), "B", CoordDocs["B"])]}

InitService ==
  /\ rpc_in \in [req : SearchRequests, store : StoreAnswers, answer : RerankAnswers]
  /\ rpc_out = NoCall
  /\ bm25_indices \in ServiceIndices
  /\ coord_out = NoCall
  /\ points = EmptyMap
  /\ map_lock = Unlocked
  /\ IndexNew
  /\ TokIdle
  /\ FusionIdle
  /\ RuntimeNew
  /\ FnIdle

\* the Search handler serves the request
SearchRpc ==
  /\ rpc_out = NoCall
  /\ \E out \in SearchHandler(bm25_indices, rpc_in.req, rpc_in.store, rpc_in.answer) :
       rpc_out' = [op |-> "search", fetch_k |-> out.fetch_k, found |-> out.found,
                   response |-> out.response, search_mode |-> out.search_mode,
                   mode |-> out.mode]
  /\ UNCHANGED <<rpc_in, indexVars, tokVars, fusionVars, coordVars, runtimeVars, fnVars>>

NextService == SearchRpc

SpecService == InitService /\ [][NextService]_vars

\* C18: with use_reranking = true the handler asks the search for
\* max(top_k * 5, rerank_top_k) candidates, hands what it gets (at most that
\* many) to the reranker and answers with at most top_k results; top_k = 5
\* and rerank_top_k = 25 fetch 25.
C18_RerankFetchCount ==
  (rpc_out.op = "search" /\ rpc_in.req.use_reranking) =>
    LET top_k == IF rpc_in.req.top_k > 0 THEN rpc_in.req.top_k ELSE 10
        wide == top_k * 5
    IN /\ rpc_out.fetch_k = IF wide > rpc_in.req.rerank_top_k THEN wide
                            ELSE rpc_in.req.rerank_top_k
       /\ rpc_out.found.ok => Len(rpc_out.found.results) <= rpc_out.fetch_k
       /\ rpc_out.response.ok => Len(rpc_out.response.results) <= top_k

\* the weight w lies in [0, 1]
InUnit(w) == 0 <= w.num /\ w.num <= w.den

\* C24: every hybrid fusion run for a Search request uses a vector_weight
\* inside [0, 1]; a request whose vector_weight lies outside [0, 1], or whose
\* collection is empty, is answered with InvalidArgument and no search.
C24_WeightOutsideUnitRejected ==
  rpc_out.op = "search" =>
    /\ rpc_out.mode.kind = "hybrid" => InUnit(rpc_out.mode.vector_weight)
    /\ ((rpc_in.req.use_hybrid /\ ~InUnit(rpc_in.req.vector_weight))
          \/ rpc_in.req.collection = "") =>
         /\ rpc_out.response = Err("InvalidArgument")
         /\ rpc_out.found = NoCall

\* C25: a hybrid Search request with vector_weight = w in [0, 1], 0 and 1
\* included, is fused with the vector weight w (and the BM25 weight 1 - w).
C25_WeightUsedAsGiven ==
  (rpc_out.op = "search" /\ rpc_in.req.use_hybrid /\ InUnit(rpc_in.req.vector_weight)) =>
    rpc_out.mode = [kind |-> "hybrid", vector_weight |-> rpc_in.req.vector_weight]

(***************************************************************************)
(* The process-wide runtimes (embedding/mod.rs, reranker/mod.rs) and the   *)
(* HealthCheck handler (SpecRuntime).                                      *)
(***************************************************************************)
\* most model objects constructed in one run
MaxLoads == 4

\* a variant of SetOnce that replaces the value of a full cell
SetReplacing(cell, model) == Some(model)

\* OnceCell::set: the cell afterwards
SetOnce(cell, model) == IF cell.some THEN cell ELSE Some(model)

\* what init_embedding_model and init_reranker return: the error of the
\* constructor when the model does not load, the error of set on a full
\* cell, and Ok(()) otherwise
InitReturn(cell, loaded) ==
  IF ~loaded THEN "load failed"
  ELSE IF cell.some THEN "already initialized" ELSE "ok"

\* a variant of HealthStatus that asks for one runtime only
HealthStatusOfEither(embedding_status, reranker_status) ==
  IF embedding_status = "healthy" \/ reranker_status = "healthy" THEN "healthy"
  ELSE "unhealthy"

\* health_check: the overall status
HealthStatus(embedding_status, reranker_status) ==
  IF embedding_status = "healthy" /\ reranker_status = "healthy" THEN "healthy"
  ELSE IF embedding_status = "healthy" \/ reranker_status = "healthy" THEN "degraded"
  ELSE "unhealthy"

\* health_check: the status of one component
ComponentStatus(handle) == IF handle.some THEN "healthy" ELSE "not_initialized"

\* init_embedding_model(config); loaded says whether EmbeddingModel::new
\* succeeds
InitEmbeddingModel(loaded) ==
  /\ loaded => loads < MaxLoads
  /\ loads' = IF loaded THEN loads + 1 ELSE loads
  /\ EMBEDDING_MODEL' = IF loaded THEN SetOnce(EMBEDDING_MODEL, loads + 1)
                         ELSE EMBEDDING_MODEL
  /\ rt_out' = [op |-> "init_embedding_model", ret |-> InitReturn(EMBEDDING_MODEL, loaded)]
  /\ UNCHANGED <<RERANKER, indexVars, tokVars, fusionVars, coordVars, rpcVars, fnVars>>

\* init_reranker(config); loaded says whether Reranker::new succeeds
InitReranker(loaded) ==
  /\ loaded => loads < MaxLoads
  /\ loads' = IF loaded THEN loads + 1 ELSE loads
  /\ RERANKER' = IF loaded THEN SetOnce(RERANKER, loads + 1) ELSE RERANKER
  /\ rt_out' = [op |-> "init_reranker", ret |-> InitReturn(RERANKER, loaded)]
  /\ UNCHANGED <<EMBEDDING_MODEL, indexVars, tokVars, fusionVars, coordVars, rpcVars, fnVars>>

\* get_embedding_model()
GetEmbeddingModel ==
  /\ rt_out' = [op |-> "get_embedding_model", ret |-> EMBEDDING_MODEL]
  /\ UNCHANGED <<EMBEDDING_MODEL, RERANKER, loads, indexVars, tokVars, fusionVars,
                 coordVars, rpcVars, fnVars>>

\* get_reranker()
GetReranker ==
  /\ rt_out' = [op |-> "get_reranker", ret |-> RERANKER]
  /\ UNCHANGED <<EMBEDDING_MODEL, RERANKER, loads, indexVars, tokVars, fusionVars,
                 coordVars, rpcVars, fnVars>>

\* the HealthCheck handler
HealthCheck ==
  /\ LET embedding_status == ComponentStatus(EMBEDDING_MODEL)
         reranker_status == ComponentStatus(RERANKER)
     IN rt_out' = [op |-> "health_check",
                   status |-> HealthStatus(embedding_status, reranker_status),
                   components |-> [embedding |-> embedding_status,
                                   reranker |-> reranker_status]]
  /\ UNCHANGED <<EMBEDDING_MODEL, RERANKER, loads, indexVars, tokVars, fusionVars,
                 coordVars, rpcVars, fnVars>>

\* embedding::embed_batch and EmbeddingModel::embed_batch: what is returned,
\* and whether the tokenizer (encoded) and the model runner (ran) were
\* invoked; runs says whether tokenizing and inference succeed
EmbedBatch(cell, texts, runs) ==
  IF ~cell.some
  THEN [ret |-> Err("Embedding model not initialized"), encoded |-> FALSE, ran |-> FALSE]
  ELSE IF texts = <<>>
  THEN [ret |-> Ok(<<>>), encoded |-> FALSE, ran |-> FALSE]
  ELSE [ret |-> IF runs THEN Ok([i \in 1..Len(texts) |-> "vector of " \o texts[i]])
                ELSE Err("inference failed"),
        encoded |-> TRUE, ran |-> TRUE]

\* the lists of texts handed to embed_batch
TextLists == {<<>>, <<"ab">>, <<"ab", "cd">>}

\* embed_batch(texts)
EmbedBatchCall(texts, runs) ==
  /\ rt_out' = [op |-> "embed_batch", texts |-> texts,
                out |-> EmbedBatch(EMBEDDING_MODEL, texts, runs)]
  /\ UNCHANGED <<EMBEDDING_MODEL, RERANKER, loads, indexVars, tokVars, fusionVars,
                 coordVars, rpcVars, fnVars>>

\* embed(text): the first vector of the batch of one text
EmbedCall(text, runs) ==
  /\ LET batch == EmbedBatch(EMBEDDING_MODEL, <<text>>, runs)
     IN rt_out' = [op |-> "embed", texts |-> <<text>>,
                   out |-> IF batch.ret.ok
                           THEN [batch EXCEPT !.ret = Ok(batch.ret.results[1])]
                           ELSE batch]
  /\ UNCHANGED <<EMBEDDING_MODEL, RERANKER, loads, indexVars, tokVars, fusionVars,
                 coordVars, rpcVars, fnVars>>

NextRuntime ==
  \/ \E loaded \in BOOLEAN : InitEmbeddingModel(loaded)
  \/ \E loaded \in BOOLEAN : InitReranker(loaded)
  \/ GetEmbeddingModel
  \/ GetReranker
  \/ HealthCheck
  \/ \E texts \in TextLists, runs \in BOOLEAN : EmbedBatchCall(texts, runs)
  \/ \E runs \in BOOLEAN : EmbedCall("ab", runs)

SpecRuntime == Init /\ [][NextRuntime]_vars

\* the number of runtimes that are initialized
Initialized == Cardinality({c \in {"e", "r"} :
                             IF c = "e" THEN EMBEDDING_MODEL.some ELSE RERANKER.some})

\* C19: HealthCheck answers "healthy" exactly when both runtimes are
\* initialized, "degraded" exactly when one of them is and "unhealthy"
\* exactly when none is, and the component entries say which.
C19_HealthReflectsRuntimes ==
  rt_out.op = "health_check" =>
    /\ rt_out.status = "healthy" <=> Initialized = 2
    /\ rt_out.status = "degraded" <=> Initialized = 1
    /\ rt_out.status = "unhealthy" <=> Initialized = 0
    /\ rt_out.components.embedding = "healthy" <=> EMBEDDING_MODEL.some
    /\ rt_out.components.embedding = "not_initialized" <=> ~EMBEDDING_MODEL.some
    /\ rt_out.components.reranker = "healthy" <=> RERANKER.some
    /\ rt_out.components.reranker = "not_initialized" <=> ~RERANKER.some

\* C19 witness: HealthCheck has answered while the reranker alone is
\* initialized.
C19_Witness ==
  /\ rt_out.op = "health_check"
  /\ RERANKER.some
  /\ ~EMBEDDING_MODEL.some
  /\ rt_out.status = "degraded"

\* for one cell and its init and get calls, across a step: an installed
\* handle stays; an init call on an empty cell that returns Ok installs a
\* handle; an init call on a full cell returns an error; a get call returns
\* the handle the cell holds
CellStep(cell, cellNext, init, get) ==
  /\ cell.some => cellNext = cell
  /\ (rt_out' # rt_out \/ loads' # loads) /\ rt_out'.op = init =>
       /\ (~cell.some /\ rt_out'.ret = "ok") => cellNext.some
       /\ cell.some => rt_out'.ret # "ok"
       /\ rt_out'.ret # "ok" => cellNext = cell
  /\ rt_out'.op = get => rt_out'.ret = cellNext

\* C20: for each runtime the first successful initialization installs the
\* handle, every later initialization returns an error and leaves the handle
\* as it is, every later get returns that handle, and so the number of
\* initialized runtimes, which health reports, never falls.
C20_HandleInstalledOnce ==
  [][/\ CellStep(EMBEDDING_MODEL, EMBEDDING_MODEL', "init_embedding_model",
                  "get_embedding_model")
     /\ CellStep(RERANKER, RERANKER', "init_reranker", "get_reranker")
     /\ Initialized' >= Initialized]_vars

\* C20 witness: the embedding cell holds the first model constructed, a
\* second init_embedding_model whose model loaded has returned the error of
\* a full cell.
C20_Witness ==
  /\ EMBEDDING_MODEL = Some(1)
  /\ loads >= 2
  /\ rt_out = [op |-> "init_embedding_model", ret |-> "already initialized"]

\* C21: embed_batch of an empty list returns an empty list without a call
\* of the tokenizer or of the model runner; embed and embed_batch of a
\* non-empty input fail with the not-initialized error while the embedding
\* runtime is not initialized.
C21_EmptyBatchAndNotInitialized ==
  /\ (rt_out.op = "embed_batch" /\ rt_out.texts = <<>>) =>
       /\ rt_out.out.ret = Ok(<<>>)
       /\ ~rt_out.out.encoded
       /\ ~rt_out.out.ran
  /\ (rt_out.op \in {"embed", "embed_batch"} /\ rt_out.texts # <<>>
        /\ ~EMBEDDING_MODEL.some) =>
       rt_out.out.ret = Err("Embedding model not initialized")

(***************************************************************************)
(* Reranker::rerank (reranker/model.rs) on the scores the cross-encoder    *)
(* gave, one finite score per document (SpecRerank).                       *)
(***************************************************************************)
\* most documents handed to rerank in the model
MaxRerankDocs == 3

\* the scores the cross-encoder gives
RerankScores == {1, 2, 3}

RECURSIVE InsertByScoreBeforeTies(_, _)
\* a variant of InsertByScore that puts e before the elements it ties with
InsertByScoreBeforeTies(s, e) ==
  IF s = <<>> THEN <<e>>
  ELSE IF Head(s)[2] > e[2] THEN <<Head(s)>> \o InsertByScoreBeforeTies(Tail(s), e)
       ELSE <<e>> \o s

RECURSIVE SortByScoreTiesReversed(_)
\* a variant of SortByScore that is not stable: ties come out in reverse
SortByScoreTiesReversed(s) ==
  IF s = <<>> THEN <<>>
  ELSE InsertByScoreBeforeTies(SortByScoreTiesReversed(SubSeq(s, 1, Len(s) - 1)), s[Len(s)])

\* a variant of RankedDocuments whose sort is not stable
RankedDocumentsTiesReversed(docs, scores, top_k) ==
  IF docs = <<>> THEN <<>>
  ELSE LET scored_docs ==
             SortByScoreTiesReversed([i \in 1..Len(docs) |-> <<i - 1, scores[i]>>])
           taken == Truncate(scored_docs, top_k)
       IN [n \in 1..Len(taken) |->
             [id |-> docs[taken[n][1] + 1].id,
              content |-> docs[taken[n][1] + 1].content,
              score |-> taken[n][2],
              original_rank |-> taken[n][1],
              new_rank |-> n - 1,
              metadata |-> docs[taken[n][1] + 1].metadata]]

\* Reranker::rerank once the scores are extracted: scored_docs is
\* (input position, score), sorted by score descending with a stable sort;
\* the first top_k become RankedDocuments
RankedDocuments(docs, scores, top_k) ==
  IF docs = <<>> THEN <<>>
  ELSE LET scored_docs == SortByScore([i \in 1..Len(docs) |-> <<i - 1, scores[i]>>])
           taken == Truncate(scored_docs, top_k)
       IN [n \in 1..Len(taken) |->
             [id |-> docs[taken[n][1] + 1].id,
              content |-> docs[taken[n][1] + 1].content,
              score |-> taken[n][2],
              original_rank |-> taken[n][1],
              new_rank |-> n - 1,
              metadata |-> docs[taken[n][1] + 1].metadata]]

\* a Document handed to rerank
RerankDocument(id, i) ==
  [id |-> id, content |-> "text of " \o id, metadata |-> [position |-> i]]

\* the calls of rerank in the model: the ids may repeat
RerankCalls ==
  UNION {{[op |-> "rerank",
           documents |-> [i \in 1..n |-> RerankDocument(ids[i], i)],
           scores |-> scores,
           top_k |-> top_k] :
            ids \in [1..n -> {"A", "B"}],
            scores \in [1..n -> RerankScores],
            top_k \in 0..(MaxRerankDocs + 1)} :
         n \in 0..MaxRerankDocs}

InitRerank ==
  /\ IndexNew
  /\ TokIdle
  /\ FusionIdle
  /\ CoordNew
  /\ RpcIdle
  /\ RuntimeNew
  /\ fn_in \in RerankCalls
  /\ fn_out = NoCall

\* rerank(query, documents, top_k) on a loaded reranker
RerankCall ==
  /\ fn_out = NoCall
  /\ fn_out' = [ranked |-> RankedDocuments(fn_in.documents, fn_in.scores, fn_in.top_k)]
  /\ UNCHANGED <<fn_in, indexVars, tokVars, fusionVars, coordVars, rpcVars, runtimeVars>>

NextRerank == RerankCall

SpecRerank == InitRerank /\ [][NextRerank]_vars

\* the output at position m comes before the input position i with score s
RankedAhead(r, i, s) ==
  \/ r.score > s
  \/ r.score = s /\ r.original_rank < i

\* C22: rerank returns min(top_k, |docs|) documents: the documents by score
\* descending, equal scores by smaller input position, cut to top_k;
\* original_rank is the zero-based input position, new_rank the zero-based
\* output position, and every output id is an input id.
C22_RerankOrderAndRanks ==
  fn_out # NoCall =>
    LET docs == fn_in.documents
        out == fn_out.ranked
    IN /\ Len(out) = Min(fn_in.top_k, Len(docs))
       /\ \A n \in 1..Len(out) :
            /\ out[n].new_rank = n - 1
            /\ out[n].original_rank \in 0..(Len(docs) - 1)
            /\ out[n].id = docs[out[n].original_rank + 1].id
            /\ out[n].content = docs[out[n].original_rank + 1].content
            /\ out[n].score = fn_in.scores[out[n].original_rank + 1]
            /\ \E i \in 1..Len(docs) : out[n].id = docs[i].id
       /\ \A m, n \in 1..Len(out) :
            m < n => RankedAhead(out[m], out[n].original_rank, out[n].score)
       /\ \A i \in 1..Len(docs) :
            (\A n \in 1..Len(out) : out[n].original_rank # i - 1) =>
              \A n \in 1..Len(out) : RankedAhead(out[n], i - 1, fn_in.scores[i])

\* three documents, the last two with the top score, cut to two
C22_Witness ==
  /\ fn_out # NoCall
  /\ Len(fn_in.documents) = 3
  /\ fn_in.scores = <<1, 2, 2>>
  /\ fn_in.top_k = 2
  /\ fn_out.ranked[1].original_rank = 1
  /\ fn_out.ranked[2].original_rank = 2

(***************************************************************************)
(* Skill extraction (ner/skills.rs) on texts that are sequences of         *)
(* characters (SpecSkills).  A skill is a sequence of characters too; a    *)
(* sorted vector of skills is the set of its elements.                     *)
(***************************************************************************)
\* some entries of PROGRAMMING_LANGUAGES, FRAMEWORKS, TOOLS, TECHNICAL_SKILLS
\* and SOFT_SKILLS
Vocabulary ==
  [languages |-> {<<"p", "y", "t", "h", "o", "n">>, <<"g", "o">>},
   frameworks |-> {<<"r", "e", "a", "c", "t">>,
                   <<"n", "e", "x", "t", ".", "j", "s">>},
   tools |-> {<<"d", "o", "c", "k", "e", "r">>},
   technical_skills |-> {<<"m", "a", "c", "h", "i", "n", "e", " ", "l", "e", "a", "r", "n", "i", "n", "g">>},
   soft_skills |-> {<<"l", "e", "a", "d", "e", "r", "s", "h", "i", "p">>}]

\* the character class of WORD_RE, [a-z0-9#+.-]
IsWordChar(c) ==
  \/ \E i \in 1..Len(LowerChars) : c = LowerChars[i]
  \/ c \in {"0", "1", "2", "3", "4", "5", "6", "7", "8", "9"}
  \/ c \in {"#", "+", ".", "-"}

RECURSIVE FindWords(_, _, _, _)
\* WORD_RE.find_iter: the maximal runs of characters of the class
FindWords(text, i, cur, acc) ==
  IF i > Len(text) THEN (IF cur = <<>> THEN acc ELSE Append(acc, cur))
  ELSE IF IsWordChar(text[i])
       THEN FindWords(text, i + 1, Append(cur, text[i]), acc)
       ELSE FindWords(text, i + 1, <<>>, IF cur = <<>> THEN acc ELSE Append(acc, cur))

\* SkillExtractor::tokenize
SkillTokenize(text) == FindWords(text, 1, <<>>, <<>>)

\* str::contains(char)
HasChar(s, c) == \E i \in 1..Len(s) : s[i] = c

\* str::contains(&str)
Contains(text, s) ==
  \E i \in 1..(Len(text) - Len(s) + 1) : SubSeq(text, i, i + Len(s) - 1) = s

\* SkillExtractor::extract_matches
ExtractMatches(words, text, skill_set) ==
  {skill \in skill_set :
     /\ HasChar(skill, " ") \/ HasChar(skill, "-") \/ HasChar(skill, ".")
     /\ Contains(text, skill)}
    \cup {words[i] : i \in {j \in 1..Len(words) : words[j] \in skill_set}}

\* SkillExtractor::extract
Extract(text, include_soft_skills) ==
  LET text_lower == ToLowercase(text)
      words == SkillTokenize(text_lower)
  IN [languages |-> ExtractMatches(words, text_lower, Vocabulary.languages),
      frameworks |-> ExtractMatches(words, text_lower, Vocabulary.frameworks),
      tools |-> ExtractMatches(words, text_lower, Vocabulary.tools),
      technical_skills |-> ExtractMatches(words, text_lower, Vocabulary.technical_skills),
      soft_skills |-> IF include_soft_skills
                      THEN ExtractMatches(words, text_lower, Vocabulary.soft_skills)
                      ELSE {}]

\* most words of a generated text
MaxSkillWords == 2

\* the words of the generated texts
SkillWords ==
  {<<"P", "y", "t", "h", "o", "n">>, <<"n", "e", "x", "t", ".", "j", "s">>,
   <<"l", "e", "a", "d", "e", "r", "s", "h", "i", "p">>,
   <<"k", "n", "o", "w">>}

\* what follows a word in a generated text
Followers == {<<" ">>, <<",", " ">>, <<";", " ">>, <<".">>}

RECURSIVE Joined(_, _)
\* the text made of the words ws, each with its follower of fs
Joined(ws, fs) ==
  IF ws = <<>> THEN <<>>
  ELSE Head(ws) \o Head(fs) \o Joined(Tail(ws), Tail(fs))

\* "I know Python, Docker and React; strong leadership."
SkillExample ==
  <<"I", " ", "k", "n", "o", "w", " ", "P", "y", "t", "h", "o", "n",
    ",", " ", "D", "o", "c", "k", "e", "r", " ", "a", "n", "d", " ",
    "R", "e", "a", "c", "t", ";", " ", "s", "t", "r", "o", "n", "g",
    " ", "l", "e", "a", "d", "e", "r", "s", "h", "i", "p", ".">>

\* the texts handed to extract
SkillTexts ==
  {SkillExample}
    \cup UNION {{Joined(ws, fs) : ws \in [1..n -> SkillWords], fs \in [1..n -> Followers]} :
                  n \in 0..MaxSkillWords}

InitSkills ==
  /\ IndexNew
  /\ TokIdle
  /\ FusionIdle
  /\ CoordNew
  /\ RpcIdle
  /\ RuntimeNew
  /\ \E text \in SkillTexts, include_soft_skills \in BOOLEAN :
       fn_in = [op |-> "extract", text |-> text,
                include_soft_skills |-> include_soft_skills]
  /\ fn_out = NoCall

\* extract(text, include_soft_skills)
ExtractCall ==
  /\ fn_out = NoCall
  /\ fn_out' = Extract(fn_in.text, fn_in.include_soft_skills)
  /\ UNCHANGED <<fn_in, indexVars, tokVars, fusionVars, coordVars, rpcVars, runtimeVars>>

NextSkills == ExtractCall

SpecSkills == InitSkills /\ [][NextSkills]_vars

\* s occurs in text as a word: between characters that are no letters or
\* digits, or at an end of the text
OccursAsWord(text, s) ==
  \E i \in 1..(Len(text) - Len(s) + 1) :
    /\ SubSeq(text, i, i + Len(s) - 1) = s
    /\ i = 1 \/ ~IsAlphanumeric(text[i - 1])
    /\ i + Len(s) > Len(text) \/ ~IsAlphanumeric(text[i + Len(s)])

\* a vocabulary entry of one token
SingleToken(skill) == \A i \in 1..Len(skill) : IsAlphanumeric(skill[i])

\* C23: every single-token vocabulary entry that occurs as a word of the
\* lowercased input is reported in its category, also when a comma, a
\* semicolon or a full stop follows it (soft skills when they are asked for).
C23_WordsBeforePunctuationFound ==
  fn_out # NoCall =>
    \A category \in DOMAIN Vocabulary :
      \A skill \in Vocabulary[category] :
        (/\ SingleToken(skill)
         /\ OccursAsWord(ToLowercase(fn_in.text), skill)
         /\ category = "soft_skills" => fn_in.include_soft_skills)
          => skill \in fn_out[category]

(***************************************************************************)
(* The vector store (search/qdrant.rs), the IndexDocuments handler         *)
(* (grpc/service.rs) and searches over what they stored (SpecStore).  A    *)
(* document id is a sequence of characters; a point id (a u64) is its      *)
(* decimal digits.                                                         *)
(***************************************************************************)
\* the collection of the requests
StoreCollection == "resumes"

\* the docs of the requests: id -> content
StoreDocs ==
  (<<"4", "2">> :> <<"a", "b">>) @@ (<<"A">> :> <<"c", "d", " ", "a", "b">>)

\* most docs of one IndexDocuments request or one index_documents call
MaxIndexDocs == 2

IsDigit(c) == c \in {"0", "1", "2", "3", "4", "5", "6", "7", "8", "9"}

RECURSIVE StripZeros(_)
\* the decimal digits of the number that the digits s denote
StripZeros(s) ==
  IF Len(s) > 1 /\ Head(s) = "0" THEN StripZeros(Tail(s)) ELSE s

\* str::parse::<u64> on a short string: digits after an optional plus sign
ParseU64(s) ==
  LET digits == IF s # <<>> /\ Head(s) = "+" THEN Tail(s) ELSE s
  IN IF digits # <<>> /\ \A i \in 1..Len(digits) : IsDigit(digits[i])
     THEN [ok |-> TRUE, value |-> ToStr(StripZeros(digits))]
     ELSE [ok |-> FALSE]

\* Uuid::new_v5(&Uuid::NAMESPACE_OID, id.as_bytes()).as_u128() as u64
Uuid5Low64(id) ==
  IF id = <<"A">> THEN "11097590506619586383"
  ELSE IF id = <<"B">> THEN "10676569822548149175"
  ELSE "hash of " \o ToStr(id)

\* the point id index_documents gives to the document with string id id
PointIdOf(id) ==
  IF ParseU64(id).ok THEN ParseU64(id).value ELSE Uuid5Low64(id)

\* format!("{:?}", id) of a numeric PointId
DebugPointId(point) == "PointId { point_id_options: Some(Num(" \o point \o ")) }"

RECURSIVE Upsert(_, _)
\* upsert_points: each point replaces the point of the same id
Upsert(stored, docs) ==
  IF docs = <<>> THEN stored
  ELSE Upsert(MapPut(stored, PointIdOf(Head(docs).id), Head(docs).metadata),
              Tail(docs))

\* QdrantClient::index_documents on a reachable store: the points afterwards
QdrantIndex(pts, collection, docs) ==
  IF docs = <<>> THEN pts
  ELSE MapPut(pts, collection,
              Upsert(IF collection \in DOMAIN pts THEN pts[collection] ELSE EmptyMap,
                     docs))

\* QdrantClient::search on a reachable store: order is the order of the
\* points by similarity to the query, of which the first top_k are returned
\* with payload
QdrantSearch(pts, collection, top_k, order) ==
  IF collection \notin DOMAIN pts THEN Err("Search failed")
  ELSE Ok([i \in 1..Min(top_k, Len(order)) |->
             LET metadata == pts[collection][order[i]]
             IN SearchResult(DebugPointId(order[i]),
                             IF "content" \in DOMAIN metadata THEN metadata.content ELSE "",
                             Frac(1, i + 1), metadata, "vector")])

\* the orders in which the store may rank the points of a collection
PointOrders(pts, collection) ==
  IF collection \in DOMAIN pts THEN IterOrders(pts[collection]) ELSE {<<>>}

\* vector_search: embed(query), then QdrantClient::search
StoreVectorSearch(cell, runs, pts, collection, top_k, order) ==
  LET query_embedding == EmbedBatch(cell, <<"query">>, runs).ret
  IN IF ~query_embedding.ok THEN query_embedding
     ELSE QdrantSearch(pts, collection, top_k, order)

RECURSIVE IndexLoop(_, _, _, _, _)
\* MlService::index_documents, the loop over req.documents: acc holds the
\* coordinator's indexes, docs_with_embeddings and failed_ids
IndexLoop(acc, docs, collection, update_bm25, embeds) ==
  IF docs = <<>> THEN acc
  ELSE LET doc == Head(docs)
       IN IF ~doc.has_embedding /\ ~embeds
          THEN IndexLoop([acc EXCEPT !.failed_ids = Append(@, ToStr(doc.id))],
                         Tail(docs), collection, update_bm25, embeds)
          ELSE IndexLoop(
                 [acc EXCEPT
                    !.indices =
                      IF update_bm25
                      THEN MapPut(@, collection,
                                  AddDocumentOn(IF collection \in DOMAIN @
                                                THEN @[collection] ELSE NewIndex,
                                                ToStr(doc.id), doc.content))
                      ELSE @,
                    !.docs_with_embeddings =
                      Append(@, [id |-> doc.id,
                                 metadata |-> [content |-> ToStr(doc.content)]])],
                 Tail(docs), collection, update_bm25, embeds)

\* MlService::index_documents: the coordinator's indexes and the points of
\* the store afterwards, and the response; embeds says whether embed
\* succeeds
IndexDocumentsHandler(indices, pts, req, embeds) ==
  LET done == IndexLoop([indices |-> indices, docs_with_embeddings |-> <<>>,
                         failed_ids |-> <<>>],
                        req.documents, req.collection, req.update_bm25, embeds)
  IN [indices |-> done.indices,
      points |-> pts,
      response |-> [indexed_count |-> Len(done.docs_with_embeddings),
                    failed_count |-> Len(done.failed_ids),
                    failed_ids |-> done.failed_ids]]

\* the document lists of the requests
DocumentLists(fields) ==
  UNION {[1..n -> fields] : n \in 0..MaxIndexDocs}

\* IndexDocuments requests
IndexRequests ==
  [collection : {StoreCollection},
   documents : DocumentLists({[id |-> id, content |-> StoreDocs[id], has_embedding |-> e] :
                                id \in DOMAIN StoreDocs, e \in BOOLEAN}),
   update_bm25 : BOOLEAN]

\* no index in the map exceeds the bound on doc_freq
WithinMaxDf(indices) ==
  \A c \in DOMAIN indices :
    \A t \in DOMAIN indices[c].doc_freq : indices[c].doc_freq[t] <= MaxDf

\* the IndexDocuments handler serves req
IndexDocumentsRpc(req, runs) ==
  LET out == IndexDocumentsHandler(bm25_indices, points, req,
                                   EmbedBatch(EMBEDDING_MODEL, <<"content">>, runs).ret.ok)
  IN /\ WithinMaxDf(out.indices)
     /\ bm25_indices' = out.indices
     /\ points' = out.points
     /\ rpc_out' = [op |-> "index_documents", req |-> req, response |-> out.response]
     /\ UNCHANGED <<coord_out, map_lock, rpc_in, indexVars, tokVars, fusionVars,
                    runtimeVars, fnVars>>

\* QdrantClient::index_documents(collection, docs)
QdrantIndexDocuments(collection, docs) ==
  /\ points' = QdrantIndex(points, collection, docs)
  /\ rpc_out' = [op |-> "qdrant_index_documents", ret |-> Len(docs)]
  /\ UNCHANGED <<bm25_indices, coord_out, map_lock, rpc_in, indexVars, tokVars,
                 fusionVars, runtimeVars, fnVars>>

\* search(collection, query, top_k, mode, filters) over the store and the
\* indexes
StoreSearch(collection, query, top_k, mode, runs) ==
  /\ \E order \in PointOrders(points, collection) :
       \E out \in SearchOutcomes(bm25_indices, collection, query, top_k, mode,
                                 StoreVectorSearch(EMBEDDING_MODEL, runs, points,
                                                   collection, Len(order), order)) :
         rpc_out' = [op |-> "search", collection |-> collection, top_k |-> top_k,
                     mode |-> mode, out |-> out]
  /\ UNCHANGED <<bm25_indices, coord_out, points, map_lock, rpc_in, indexVars, tokVars,
                 fusionVars, runtimeVars, fnVars>>

InitStore ==
  /\ IndexNew
  /\ TokIdle
  /\ FusionIdle
  /\ CoordNew
  /\ RpcIdle
  /\ \E loaded \in BOOLEAN :
       /\ EMBEDDING_MODEL = IF loaded THEN Some(1) ELSE None
       /\ loads = IF loaded THEN 1 ELSE 0
  /\ RERANKER = None
  /\ rt_out = NoCall
  /\ FnIdle

NextStore ==
  \/ \E req \in IndexRequests, runs \in BOOLEAN : IndexDocumentsRpc(req, runs)
  \/ \E docs \in DocumentLists({[id |-> id,
                                      metadata |-> [content |-> ToStr(StoreDocs[id])]] :
                                       id \in DOMAIN StoreDocs}) :
       QdrantIndexDocuments(StoreCollection, docs)
  \/ \E query \in CoordQueries, top_k \in CoordTopKs, mode \in Modes, runs \in BOOLEAN :
       StoreSearch(StoreCollection, query, top_k, mode, runs)

SpecStore == InitStore /\ [][NextStore]_vars

\* the store holds a point of the collection whose payload has the content
StoredWithContent(collection, content) ==
  /\ collection \in DOMAIN points
  /\ \E p \in DOMAIN points[collection] :
       /\ "content" \in DOMAIN points[collection][p]
       /\ points[collection][p].content = content

\* C26: when IndexDocuments returns, indexed_count counts only docs of
\* the request that are in the vector store with metadata["content"] equal
\* to their content.
C26_CountedDocumentsStored ==
  rpc_out.op = "index_documents" =>
    LET req == rpc_out.req
    IN rpc_out.response.indexed_count
         <= Cardinality({i \in 1..Len(req.documents) :
                           StoredWithContent(req.collection,
                                             ToStr(req.documents[i].content))})

\* C27: a document indexed under the string id X in the vector store and in
\* the BM25 index comes back from the vector branch of a hybrid search with
\* the id X, and the fused list has one result for it.
C27_IdRoundTrip ==
  (rpc_out.op = "search" /\ rpc_out.mode.kind = "hybrid" /\ rpc_out.out.vector.ok
     /\ rpc_out.out.bm25.ok) =>
    \A X \in DOMAIN StoreDocs :
      (/\ PointIdOf(X) \in DOMAIN points[rpc_out.collection]
       /\ ToStr(X) \in DOMAIN bm25_indices[rpc_out.collection].documents) =>
        /\ \E i \in 1..Len(rpc_out.out.vector.results) :
             rpc_out.out.vector.results[i].id = ToStr(X)
        /\ \A i, j \in 1..Len(rpc_out.out.ret.results) :
             (/\ rpc_out.out.ret.results[i].content = ToStr(StoreDocs[X])
              /\ rpc_out.out.ret.results[j].content = ToStr(StoreDocs[X])) => i = j

(***************************************************************************)
(* Calls from several threads (SpecConc).  Every statement that takes a    *)
(* lock, works under it and drops it is one step; documents.read() and     *)
(* doc_freq.read() of search, and documents.read() of update_avg_doc_len,  *)
(* are held over the following statements.                                 *)
(***************************************************************************)
\* most add_document and clear calls made in one run
MaxCalls == 2

\* the arguments threads pass
ConcIds == {"1", "2"}
ConcContents == {<<"a", "b">>, <<"A", "b", " ", "c", "d">>}
ConcQueries == {<<"a", "b">>, <<"x", "!">>}

\* RwLock::write succeeds on a lock no thread holds for reading
CanWrite(lock) == readers[lock] = {}

Goto(t, label) == pc' = [pc EXCEPT ![t] = label]

\* a thread enters add_document(id, content): tokens and unique_terms are
\* computed before any lock is taken
CallAdd(t, id, content) ==
  /\ pc[t] = "idle"
  /\ Len(hist) < MaxCalls
  /\ call' = [call EXCEPT ![t] =
               [op |-> "add", id |-> id, content |-> content,
                tokens |-> Tokenize(content)]]
  /\ hist' = Append(hist, [op |-> "add", id |-> id, content |-> content])
  /\ Goto(t, "add_doc_freq")
  /\ UNCHANGED <<documents, doc_freq, avg_doc_len, results, readers, seqVars, otherVars>>

\* add_document: the block under doc_freq.write()
AddBumpDocFreq(t) ==
  /\ pc[t] = "add_doc_freq"
  /\ CanWrite("doc_freq")
  /\ doc_freq' = BumpDocFreq(doc_freq, call[t].tokens)
  /\ Goto(t, "add_store")
  /\ UNCHANGED <<documents, avg_doc_len, results, call, readers, hist, seqVars, otherVars>>

\* add_document: the block under documents.write()
AddStore(t) ==
  /\ pc[t] = "add_store"
  /\ CanWrite("documents")
  /\ documents' = StoreDocument(documents, call[t].id, call[t].content, call[t].tokens)
  /\ Goto(t, "avg_read_docs")
  /\ UNCHANGED <<doc_freq, avg_doc_len, results, call, readers, hist, seqVars, otherVars>>

\* update_avg_doc_len: let docs = self.documents.read()
AvgReadDocs(t) ==
  /\ pc[t] = "avg_read_docs"
  /\ readers' = [readers EXCEPT !["documents"] = @ \cup {t}]
  /\ Goto(t, "avg_write")
  /\ UNCHANGED <<documents, doc_freq, avg_doc_len, results, call, hist, seqVars, otherVars>>

\* update_avg_doc_len: the write of avg_doc_len, then docs is dropped and
\* add_document returns
AvgWrite(t) ==
  /\ pc[t] = "avg_write"
  /\ avg_doc_len' = AvgDocLen(documents)
  /\ readers' = [readers EXCEPT !["documents"] = @ \ {t}]
  /\ call' = [call EXCEPT ![t] = NoCall]
  /\ Goto(t, "idle")
  /\ UNCHANGED <<documents, doc_freq, results, hist, seqVars, otherVars>>

\* a thread enters clear()
CallClear(t) ==
  /\ pc[t] = "idle"
  /\ Len(hist) < MaxCalls
  /\ call' = [call EXCEPT ![t] = [op |-> "clear"]]
  /\ hist' = Append(hist, [op |-> "clear"])
  /\ Goto(t, "clear_documents")
  /\ UNCHANGED <<documents, doc_freq, avg_doc_len, results, readers, seqVars, otherVars>>

\* clear: self.documents.write().clear()
ClearDocuments(t) ==
  /\ pc[t] = "clear_documents"
  /\ CanWrite("documents")
  /\ documents' = EmptyMap
  /\ Goto(t, "clear_doc_freq")
  /\ UNCHANGED <<doc_freq, avg_doc_len, results, call, readers, hist, seqVars, otherVars>>

\* clear: self.doc_freq.write().clear()
ClearDocFreq(t) ==
  /\ pc[t] = "clear_doc_freq"
  /\ CanWrite("doc_freq")
  /\ doc_freq' = EmptyMap
  /\ Goto(t, "clear_avg")
  /\ UNCHANGED <<documents, avg_doc_len, results, call, readers, hist, seqVars, otherVars>>

\* clear: *self.avg_doc_len.write() = 0.0, and clear returns
ClearAvg(t) ==
  /\ pc[t] = "clear_avg"
  /\ avg_doc_len' = Zero
  /\ call' = [call EXCEPT ![t] = NoCall]
  /\ Goto(t, "idle")
  /\ UNCHANGED <<documents, doc_freq, results, readers, hist, seqVars, otherVars>>

\* a thread enters search(query, top_k); a query without tokens returns the
\* empty list before any lock is taken
CallSearch(t, query, top_k) ==
  /\ pc[t] = "idle"
  /\ IF Tokenize(query) = <<>>
     THEN /\ results' = <<>>
          /\ UNCHANGED <<pc, call>>
     ELSE /\ call' = [call EXCEPT ![t] =
                       [op |-> "search", query |-> query, top_k |-> top_k]]
          /\ Goto(t, "search_read_docs")
          /\ UNCHANGED results
  /\ UNCHANGED <<documents, doc_freq, avg_doc_len, readers, hist, seqVars, otherVars>>

\* search: let docs = self.documents.read()
SearchReadDocs(t) ==
  /\ pc[t] = "search_read_docs"
  /\ readers' = [readers EXCEPT !["documents"] = @ \cup {t}]
  /\ Goto(t, "search_read_doc_freq")
  /\ UNCHANGED <<documents, doc_freq, avg_doc_len, results, call, hist, seqVars, otherVars>>

\* search: let doc_freq = self.doc_freq.read()
SearchReadDocFreq(t) ==
  /\ pc[t] = "search_read_doc_freq"
  /\ readers' = [readers EXCEPT !["doc_freq"] = @ \cup {t}]
  /\ Goto(t, "search_read_avg")
  /\ UNCHANGED <<documents, doc_freq, avg_doc_len, results, call, hist, seqVars, otherVars>>

\* search: let avg_doc_len = *self.avg_doc_len.read()
SearchReadAvg(t) ==
  /\ pc[t] = "search_read_avg"
  /\ call' = [call EXCEPT ![t] =
               [op |-> "search", query |-> @.query, top_k |-> @.top_k,
                avg_doc_len |-> avg_doc_len]]
  /\ Goto(t, "search_score")
  /\ UNCHANGED <<documents, doc_freq, avg_doc_len, results, readers, hist, seqVars, otherVars>>

\* search: the scores, the sort and the cut, under both read guards, which
\* are dropped as search returns
SearchScore(t) ==
  /\ pc[t] = "search_score"
  /\ \E order \in IterOrders(documents) :
       results' = SearchOn(documents, doc_freq, call[t].avg_doc_len,
                           call[t].query, call[t].top_k, order)
  /\ readers' = [l \in Locks |-> readers[l] \ {t}]
  /\ call' = [call EXCEPT ![t] = NoCall]
  /\ Goto(t, "idle")
  /\ UNCHANGED <<documents, doc_freq, avg_doc_len, hist, seqVars, otherVars>>

NextConc ==
  \E t \in Threads :
    \/ \E id \in ConcIds, content \in ConcContents : CallAdd(t, id, content)
    \/ AddBumpDocFreq(t)
    \/ AddStore(t)
    \/ AvgReadDocs(t)
    \/ AvgWrite(t)
    \/ CallClear(t)
    \/ ClearDocuments(t)
    \/ ClearDocFreq(t)
    \/ ClearAvg(t)
    \/ \E query \in ConcQueries : CallSearch(t, query, MaxTopK)
    \/ SearchReadDocs(t)
    \/ SearchReadDocFreq(t)
    \/ SearchReadAvg(t)
    \/ SearchScore(t)

SpecConc == Init /\ [][NextConc]_vars

\* the index after one call of hist made alone
ApplyCall(c, ix) ==
  IF c.op = "add" THEN AddDocumentOn(ix, c.id, c.content) ELSE ClearOn(ix)

RECURSIVE SerialAll(_, _)
\* the indexes reached from ix by making the calls hist[i], i in S, one after
\* another in some order
SerialAll(ix, S) ==
  IF S = {} THEN {ix}
  ELSE UNION {SerialAll(ApplyCall(hist[i], ix), S \ {i}) : i \in S}

\* the indexes that exist before or after whole calls: some of the calls of
\* hist made one after another in some order
SerialStates == UNION {SerialAll(NewIndex, S) : S \in SUBSET (1..Len(hist))}

\* C3: the documents, doc_freq and avg_doc_len values one search call reads
\* are those of one index state that exists before or after whole
\* add_document and clear calls.
C3_SearchReadsOneState ==
  \A t \in Threads :
    pc[t] = "search_score" =>
      [documents |-> documents, doc_freq |-> doc_freq,
       avg_doc_len |-> call[t].avg_doc_len] \in SerialStates

\* C4: once all calls have returned, the index is in the state that the same
\* add_document and clear calls produce when made one after another in some
\* order.
C4_WritersSerialized ==
  (\A t \in Threads : pc[t] = "idle") => Index \in SerialAll(NewIndex, 1..Len(hist))

(***************************************************************************)
(* Calls from several threads on the coordinator (SpecCoordConc).  The     *)
(* index variables are the index of the one collection the calls name,     *)
(* which the map holds (get_or_create_bm25 has run).  A call takes the     *)
(* lock around the map, runs the inner call step by step as above, and     *)
(* drops the lock as it returns.                                           *)
(***************************************************************************)
\* what no call on the coordinator's BM25 side touches
apartVars == <<bm25_indices, points, tokVars, fusionVars, rpcVars, runtimeVars, fnVars>>

\* the thread holds the lock around the map
HoldsMap(t) == map_lock.writer = t \/ t \in map_lock.readers

\* a thread enters add_to_bm25(collection, id, content)
CoordCallAdd(t, id, content) ==
  /\ pc[t] = "idle"
  /\ ~HoldsMap(t)
  /\ Len(hist) < MaxCalls
  /\ call' = [call EXCEPT ![t] =
               [op |-> "add", id |-> id, content |-> content,
                tokens |-> Tokenize(content)]]
  /\ hist' = Append(hist, [op |-> "add", id |-> id, content |-> content])
  /\ Goto(t, "map_write")
  /\ UNCHANGED <<documents, doc_freq, avg_doc_len, results, readers, seqVars, otherVars>>

\* a thread enters clear_bm25(collection)
CoordCallClear(t) ==
  /\ pc[t] = "idle"
  /\ ~HoldsMap(t)
  /\ Len(hist) < MaxCalls
  /\ call' = [call EXCEPT ![t] = [op |-> "clear"]]
  /\ hist' = Append(hist, [op |-> "clear"])
  /\ Goto(t, "map_write")
  /\ UNCHANGED <<documents, doc_freq, avg_doc_len, results, readers, seqVars, otherVars>>

\* a variant of MapWrite that does not wait for the readers of the map
MapWriteOverReaders(t) ==
  /\ pc[t] = "map_write"
  /\ map_lock.writer = "none"
  /\ map_lock' = [map_lock EXCEPT !.writer = t]
  /\ Goto(t, IF call[t].op = "add" THEN "add_doc_freq" ELSE "clear_documents")
  /\ UNCHANGED <<documents, doc_freq, avg_doc_len, results, call, readers, hist, seqVars,
                 coord_out, apartVars>>

\* let mut indices = self.bm25_indices.write(), and the inner add_document
\* or clear begins
MapWrite(t) ==
  /\ pc[t] = "map_write"
  /\ map_lock = Unlocked
  /\ map_lock' = [map_lock EXCEPT !.writer = t]
  /\ Goto(t, IF call[t].op = "add" THEN "add_doc_freq" ELSE "clear_documents")
  /\ UNCHANGED <<documents, doc_freq, avg_doc_len, results, call, readers, hist, seqVars,
                 coord_out, apartVars>>

\* add_to_bm25 or clear_bm25 returns after the inner call: indices is
\* dropped
MapWriteReturn(t) ==
  /\ pc[t] = "idle"
  /\ map_lock.writer = t
  /\ map_lock' = [map_lock EXCEPT !.writer = "none"]
  /\ UNCHANGED <<indexVars, coord_out, apartVars>>

\* a thread enters bm25_search(collection, query, top_k)
CoordCallSearch(t, query, top_k) ==
  /\ pc[t] = "idle"
  /\ ~HoldsMap(t)
  /\ call' = [call EXCEPT ![t] = [op |-> "search", query |-> query, top_k |-> top_k]]
  /\ Goto(t, "map_read")
  /\ UNCHANGED <<documents, doc_freq, avg_doc_len, results, readers, hist, seqVars,
                 otherVars>>

\* let indices = self.bm25_indices.read(), and the inner search begins; a
\* query without tokens makes it return the empty list at once
MapRead(t) ==
  /\ pc[t] = "map_read"
  /\ map_lock.writer = "none"
  /\ map_lock' = [map_lock EXCEPT !.readers = @ \cup {t}]
  /\ IF Tokenize(call[t].query) = <<>>
     THEN /\ call' = [call EXCEPT ![t] = [op |-> "search", found |-> <<>>,
                                          contents |-> <<>>]]
          /\ Goto(t, "lookup")
     ELSE /\ Goto(t, "search_read_docs")
          /\ UNCHANGED call
  /\ UNCHANGED <<documents, doc_freq, avg_doc_len, results, readers, hist, seqVars,
                 coord_out, apartVars>>

\* the inner search returns bm25_results: the scores, the sort and the cut,
\* under both read guards of the index, which are dropped
CoordSearchScore(t) ==
  /\ pc[t] = "search_score"
  /\ HoldsMap(t)
  /\ \E order \in IterOrders(documents) :
       call' = [call EXCEPT ![t] =
                 [op |-> "search",
                  found |-> SearchOn(documents, doc_freq, call[t].avg_doc_len,
                                     call[t].query, call[t].top_k, order),
                  contents |-> <<>>]]
  /\ readers' = [l \in Locks |-> readers[l] \ {t}]
  /\ Goto(t, "lookup")
  /\ UNCHANGED <<documents, doc_freq, avg_doc_len, results, hist, seqVars, otherVars>>

\* the map over bm25_results: index.get_document(&id).unwrap_or_default()
\* for the next result
CoordLookup(t) ==
  /\ pc[t] = "lookup"
  /\ Len(call[t].contents) < Len(call[t].found)
  /\ call' = [call EXCEPT ![t].contents =
               Append(@, GetDocument([documents |-> documents],
                                     call[t].found[Len(call[t].contents) + 1][1]))]
  /\ UNCHANGED <<documents, doc_freq, avg_doc_len, results, pc, readers, hist, seqVars,
                 otherVars>>

\* a variant of CoordSearchReturn that returns without dropping indices
CoordSearchReturnKeepingGuard(t) ==
  /\ pc[t] = "lookup"
  /\ Len(call[t].contents) = Len(call[t].found)
  /\ coord_out' = [op |-> "bm25_search",
                   ret |-> Ok([i \in 1..Len(call[t].found) |->
                                 SearchResult(call[t].found[i][1], call[t].contents[i],
                                              Frac(call[t].found[i][2], Scale),
                                              EmptyMap, "bm25")])]
  /\ call' = [call EXCEPT ![t] = NoCall]
  /\ Goto(t, "idle")
  /\ UNCHANGED <<documents, doc_freq, avg_doc_len, results, readers, hist, seqVars,
                 map_lock, apartVars>>

\* bm25_search returns its results: indices is dropped
CoordSearchReturn(t) ==
  /\ pc[t] = "lookup"
  /\ Len(call[t].contents) = Len(call[t].found)
  /\ coord_out' = [op |-> "bm25_search",
                   ret |-> Ok([i \in 1..Len(call[t].found) |->
                                 SearchResult(call[t].found[i][1], call[t].contents[i],
                                              Frac(call[t].found[i][2], Scale),
                                              EmptyMap, "bm25")])]
  /\ map_lock' = [map_lock EXCEPT !.readers = @ \ {t}]
  /\ call' = [call EXCEPT ![t] = NoCall]
  /\ Goto(t, "idle")
  /\ UNCHANGED <<documents, doc_freq, avg_doc_len, results, readers, hist, seqVars,
                 apartVars>>

\* the documents threads add through the coordinator: id -> content
CoordConcDocs == [id \in ConcIds |-> IF id = "1" THEN <<"a", "b">>
                                     ELSE <<"A", "b", " ", "c", "d">>]

NextCoordConc ==
  \E t \in Threads :
    \/ \E id \in ConcIds : CoordCallAdd(t, id, CoordConcDocs[id])
    \/ CoordCallClear(t)
    \/ MapWrite(t)
    \/ AddBumpDocFreq(t)
    \/ AddStore(t)
    \/ AvgReadDocs(t)
    \/ AvgWrite(t)
    \/ ClearDocuments(t)
    \/ ClearDocFreq(t)
    \/ ClearAvg(t)
    \/ MapWriteReturn(t)
    \/ \E query \in ConcQueries : CoordCallSearch(t, query, MaxTopK)
    \/ MapRead(t)
    \/ SearchReadDocs(t)
    \/ SearchReadDocFreq(t)
    \/ SearchReadAvg(t)
    \/ CoordSearchScore(t)
    \/ CoordLookup(t)
    \/ CoordSearchReturn(t)

SpecCoordConc == Init /\ [][NextCoordConc]_vars

\* the thread is inside the inner call of its coordinator call
InInnerCall(t) == pc[t] \notin {"idle", "map_write", "map_read"}

\* C29: through the coordinator an add or clear runs under the write lock
\* of the map from its first step to its last and a search with its content
\* lookups under the read lock, so what a search reads and looks up is an
\* index state that exists before or after whole adds and clears, every
\* returned id gets its stored content, and the index that is left when all
\* calls have returned is that of the calls made one after another.
C29_CoordinatorCallsAtomic ==
  /\ map_lock.writer # "none" => map_lock.readers = {}
  /\ \A t \in Threads :
       /\ InInnerCall(t) =>
            IF call[t].op = "search" THEN t \in map_lock.readers
            ELSE map_lock.writer = t
       /\ t \in map_lock.readers => Index \in SerialStates
       /\ pc[t] = "lookup" =>
            \A i \in 1..Len(call[t].contents) :
              /\ call[t].found[i][1] \in DOMAIN documents
              /\ call[t].contents[i] = ToStr(documents[call[t].found[i][1]].content)
              /\ call[t].contents[i] # ""
  /\ ((\A t \in Threads : pc[t] = "idle") /\ map_lock = Unlocked) =>
       Index \in SerialAll(NewIndex, 1..Len(hist))

\* one thread has looked up the content of a result of its search while
\* the other waits for the write lock of the map
C29_Witness ==
  \E t, u \in Threads :
    /\ pc[t] = "lookup"
    /\ Len(call[t].contents) > 0
    /\ pc[u] = "map_write"
    /\ Len(hist) = MaxCalls

(***************************************************************************)
(* Liveness (SpecLive).  The threads either call one BM25Index directly    *)
(* (the map is empty) or call the coordinator, whose map holds the index;  *)
(* the state of the index is in the index variables in both cases.  A      *)
(* parking_lot RwLock makes a read request wait while a write request      *)
(* waits; every thread that can take a step eventually takes one.          *)
(***************************************************************************)
\* a thread enters get_document(id)
CallGetDocument(t, id) ==
  /\ pc[t] = "idle"
  /\ call' = [call EXCEPT ![t] = [op |-> "get_document", id |-> id]]
  /\ Goto(t, "read_documents")
  /\ UNCHANGED <<documents, doc_freq, avg_doc_len, results, readers, hist, seqVars,
                 otherVars>>

\* a thread enters len()
CallLen(t) ==
  /\ pc[t] = "idle"
  /\ call' = [call EXCEPT ![t] = [op |-> "len"]]
  /\ Goto(t, "read_documents")
  /\ UNCHANGED <<documents, doc_freq, avg_doc_len, results, readers, hist, seqVars,
                 otherVars>>

\* get_document and len: self.documents.read(), the value, and the return
ReadDocuments(t) ==
  /\ pc[t] = "read_documents"
  /\ call' = [call EXCEPT ![t] = NoCall]
  /\ Goto(t, "idle")
  /\ UNCHANGED <<documents, doc_freq, avg_doc_len, results, readers, hist, seqVars,
                 otherVars>>

\* the map of a coordinator that holds the index of the collection; the
\* state of that index is in the index variables
MapWithIndex == [c \in {StoreCollection} |-> NewIndex]

InitLive ==
  /\ IndexNew
  /\ TokIdle
  /\ FusionIdle
  /\ bm25_indices \in {EmptyMap, MapWithIndex}
  /\ coord_out = NoCall
  /\ points = EmptyMap
  /\ map_lock = Unlocked
  /\ RpcIdle
  /\ RuntimeNew
  /\ FnIdle

\* the threads call the index directly
Direct == bm25_indices = EmptyMap

\* a thread waits for the write guard of the lock
WriterWaits(lock) ==
  \E u \in Threads :
    pc[u] \in (IF lock = "documents" THEN {"add_store", "clear_documents"}
               ELSE IF lock = "doc_freq" THEN {"add_doc_freq", "clear_doc_freq"}
               ELSE {"map_write"})

\* the steps of thread t that take or drop a lock, other than the entry
\* into a call and the scoring of a search
Locking(t) ==
  \/ AddBumpDocFreq(t)
  \/ AddStore(t)
  \/ ~WriterWaits("documents") /\ AvgReadDocs(t)
  \/ AvgWrite(t)
  \/ ClearDocuments(t)
  \/ ClearDocFreq(t)
  \/ ClearAvg(t)
  \/ ~WriterWaits("documents") /\ SearchReadDocs(t)
  \/ ~WriterWaits("doc_freq") /\ SearchReadDocFreq(t)
  \/ SearchReadAvg(t)
  \/ ~WriterWaits("documents") /\ ReadDocuments(t)
  \/ MapWrite(t)
  \/ MapWriteReturn(t)
  \/ ~WriterWaits("map") /\ MapRead(t)
  \/ ~WriterWaits("documents") /\ CoordLookup(t)
  \/ CoordSearchReturn(t)

\* the scoring step of the search of thread t
Scoring(t) ==
  \/ Direct /\ SearchScore(t)
  \/ CoordSearchScore(t)

\* the entry of thread t into a call
Enter(t) ==
  \/ Direct /\ \E id \in ConcIds : CallAdd(t, id, CoordConcDocs[id])
  \/ Direct /\ CallClear(t)
  \/ Direct /\ CallSearch(t, CoordConcDocs["1"], MaxTopK)
  \/ Direct /\ \E id \in ConcIds : CallGetDocument(t, id)
  \/ Direct /\ CallLen(t)
  \/ ~Direct /\ \E id \in ConcIds : CoordCallAdd(t, id, CoordConcDocs[id])
  \/ ~Direct /\ CoordCallClear(t)
  \/ ~Direct /\ CoordCallSearch(t, CoordConcDocs["1"], MaxTopK)

NextLive == \E t \in Threads : Enter(t) \/ Locking(t) \/ Scoring(t)

\* every thread that can go on with its call eventually does.  The scoring
\* step takes no lock, so a thread at it can always take it, and weak
\* fairness of it says that the thread does not stay at it for ever
Fairness ==
  \A t \in Threads : WF_vars(Locking(t)) /\ []<>(pc[t] # "search_score")

SpecLive == InitLive /\ [][NextLive]_vars /\ Fairness

\* the thread is in a call or holds the lock around the map
InCall(t) == pc[t] # "idle" \/ HoldsMap(t)

\* C30: no interleaving of add_document, search, get_document, clear and len
\* calls on one index, nor of add_to_bm25, clear_bm25 and bm25_search calls
\* on the coordinator, blocks for ever: every call that has begun returns
\* and gives back the locks it took.
C30_EveryCallReturns ==
  \A t \in Threads : InCall(t) ~> ~InCall(t)

\* a search that holds documents for reading is about to ask for doc_freq
\* while an add_document waits to write doc_freq
C30_Witness ==
  \E t, u \in Threads :
    /\ pc[t] = "search_read_doc_freq"
    /\ t \in readers["documents"]
    /\ pc[u] = "add_doc_freq"

=============================================================================
